---- MODULE Spec2Model ----
(***************************************************************************)
(* Roulette server: the round state machine (GameStateService), the player *)
(* credit ledger (TokenServiceClass), the house ledger (HouseWalletService) *)
(* and the express route handlers of routes/game.ts that drive them.        *)
(*                                                                         *)
(* Every service method is an `async` function without an internal         *)
(* suspension before its last state change, so one service call is one     *)
(* atomic step.  A route handler suspends at each `await`; between two     *)
(* awaits of one handler the continuations of other handlers may run.      *)
(* Each handler is therefore a sequence of atomic steps, one per await,    *)
(* and steps of different handlers interleave freely.                      *)
(*                                                                         *)
(* Credits are integers (spec: `balance: integer`).  Of the time stamps    *)
(* only lastActivity, which the eviction sweep reads, is kept; the other   *)
(* time stamps, the random id strings and the periodic file flushes carry  *)
(* no ledger state and are left out.                                       *)
(***************************************************************************)
EXTENDS Integers, Sequences, FiniteSets, TLC

(***************************************************************************)
(* Bounds and input sets                                                   *)
(***************************************************************************)
\* total number of requests (route calls plus direct transfers) in one run
MaxRequests == 4

\* how many of them may name an account other than FirstAccount
MaxOtherRequests == 1

\* wallet addresses; FirstAccount is the one the first request names (the
\* addresses are interchangeable)
Accounts == {"A", "B"}
FirstAccount == "A"
\* handler slots: the requests that can be in progress at the same time
Procs == {1, 2}

\* the slots the outcome generator is sampled at (it can return any of 0..36)
SlotChoices == {0, 17, 18}

\* amounts of withdraw and transfer requests
AmountChoices == {700}

\* how many entries beyond its cap a transaction log is driven
LogExtra == 3

\* amounts of direct calls of the ledger methods
LedgerAmounts == {700, 1200}

(***************************************************************************)
(* Program constants                                                       *)
(***************************************************************************)
StartingBalance == 1000
MaxPlayerTx == 100
MaxHouseTx == 1000
MaxFavorites == 10
NumSlots == 37

NoNumber == -1
NoObj == 0
ObjIds == 1..(Cardinality(Accounts) + 2 * Cardinality(Procs))

(***************************************************************************)
(* Generic helpers                                                         *)
(***************************************************************************)
RECURSIVE SumAmounts(_)
SumAmounts(bs) ==
    IF bs = <<>> THEN 0 ELSE Head(bs).amount + SumAmounts(Tail(bs))

\* a cut that keeps the oldest n entries
First(s, n) ==
    IF Len(s) > n THEN SubSeq(s, 1, n) ELSE s

Last(s, n) ==
    IF Len(s) > n THEN SubSeq(s, Len(s) - n + 1, Len(s)) ELSE s

Max(x, y) == IF x > y THEN x ELSE y

SetSum(f, S) ==
    LET RECURSIVE Go(_)
        Go(T) == IF T = {} THEN 0
                 ELSE LET x == CHOOSE y \in T : TRUE IN f[x] + Go(T \ {x})
    IN Go(S)

(***************************************************************************)
(* Bets                                                                    *)
(***************************************************************************)
NumV(n) == [k |-> "num", n |-> n, s |-> ""]
StrV(s) == [k |-> "str", n |-> 0, s |-> s]

Bet(t, v, a, p) == [type |-> t, value |-> v, amount |-> a, payout |-> p]

\* request bodies accepted by placeBetSchema that the model submits
BetChoices ==
    { Bet("number", NumV(17), 700, 35),
      Bet("color", StrV("red"), 400, 1) }

\* the request bodies a single client submits one after the other
SeqBetChoices ==
    { Bet("number", NumV(17), 100, 35),
      Bet("color", StrV("red"), 50, 1),
      Bet("dozen", NumV(2), 100, 2) }

(***************************************************************************)
(* Payout rules (routes/game.ts)                                           *)
(***************************************************************************)
redNumbers == {1, 3, 5, 7, 9, 12, 14, 16, 18, 19, 21, 23, 25, 27, 30, 32, 34, 36}

Ceil12(n) == (n + 11) \div 12

\* isBetWinning without the zero check of the odds_evens case
isBetWinningZeroEven(bet, winningNumber) ==
    CASE bet.type = "number" -> bet.value = NumV(winningNumber)
      [] bet.type = "color" ->
            IF winningNumber = 0 THEN FALSE
            ELSE LET isRed == winningNumber \in redNumbers
                 IN (bet.value = StrV("red") /\ isRed)
                    \/ (bet.value = StrV("black") /\ ~isRed)
      [] bet.type = "odds_evens" ->
            LET isOdd == winningNumber % 2 = 1
            IN (bet.value = StrV("odd") /\ isOdd)
               \/ (bet.value = StrV("even") /\ ~isOdd)
      [] bet.type = "dozen" ->
            IF winningNumber = 0 THEN FALSE
            ELSE bet.value = NumV(Ceil12(winningNumber))
      [] OTHER -> FALSE

isBetWinning(bet, winningNumber) ==
    CASE bet.type = "number" -> bet.value = NumV(winningNumber)
      [] bet.type = "color" ->
            IF winningNumber = 0 THEN FALSE
            ELSE LET isRed == winningNumber \in redNumbers
                 IN (bet.value = StrV("red") /\ isRed)
                    \/ (bet.value = StrV("black") /\ ~isRed)
      [] bet.type = "odds_evens" ->
            IF winningNumber = 0 THEN FALSE
            ELSE LET isOdd == winningNumber % 2 = 1
                 IN (bet.value = StrV("odd") /\ isOdd)
                    \/ (bet.value = StrV("even") /\ ~isOdd)
      [] bet.type = "dozen" ->
            IF winningNumber = 0 THEN FALSE
            ELSE bet.value = NumV(Ceil12(winningNumber))
      [] OTHER -> FALSE

RECURSIVE calculateWinningsNet(_, _)
RECURSIVE calculateWinnings(_, _)
\* calculateWinnings that leaves the stake out of the payout
calculateWinningsNet(bets, winningNumber) ==
    IF bets = <<>> THEN [winningBets |-> <<>>, totalWinnings |-> 0]
    ELSE LET rest == calculateWinningsNet(Tail(bets), winningNumber)
             bet == Head(bets)
         IN IF isBetWinning(bet, winningNumber)
            THEN [winningBets |-> <<bet>> \o rest.winningBets,
                  totalWinnings |-> bet.amount * bet.payout + rest.totalWinnings]
            ELSE rest

calculateWinnings(bets, winningNumber) ==
    IF bets = <<>> THEN [winningBets |-> <<>>, totalWinnings |-> 0]
    ELSE LET rest == calculateWinnings(Tail(bets), winningNumber)
             bet == Head(bets)
         IN IF isBetWinning(bet, winningNumber)
            THEN [winningBets |-> <<bet>> \o rest.winningBets,
                  totalWinnings |-> bet.amount * (bet.payout + 1) + rest.totalWinnings]
            ELSE rest

(***************************************************************************)
(* State                                                                   *)
(***************************************************************************)
VARIABLES
    gameStates,   \* GameStateService.gameStates: account -> round object (NoObj: none)
    heap,         \* the GameState objects, by identity
    playerStats,  \* GameStateService.playerStats
    balances,     \* TokenServiceClass.balances
    houseStats,   \* HouseWalletService.stats
    houseTx,      \* HouseWalletService.transactions
    pc,           \* per request handler: the await it is suspended at
    req,          \* per request handler: the request it serves
    loc,          \* per request handler: its local variables
    ret,          \* result of the last direct ledger call
    nreq,         \* number of requests issued so far: in total, and for other accounts
    escrowed,     \* history: per account, debits taken for the current round's bets, less refunds
    refunded,     \* history: per account, total credited by clear-bets handlers
    cleared,      \* history: per account, total pendingTotal removed by clearBets
    settled,      \* history: per account, settlements whose ledger part is complete
    endSpins,     \* history: per account, successful endSpin calls on its current round
    withdrawn,    \* history: total debited by withdraw handlers
    clock         \* the time, and per account the lastActivity of its round

vars == <<gameStates, heap, playerStats, balances, houseStats, houseTx,
          pc, req, loc, ret, nreq, escrowed, refunded, cleared, settled,
          endSpins, withdrawn, clock>>

(***************************************************************************)
(* Player ledger (TokenServiceClass)                                       *)
(***************************************************************************)
Tx(t, a, d) == [type |-> t, amount |-> a, description |-> d]

NoBalance ==
    [present |-> FALSE, balance |-> 0, totalEarned |-> 0, totalSpent |-> 0,
     transactions |-> <<>>]

\* getOrCreateBalance that builds the record without looking for an existing one
getOrCreateBalanceAlways(bals, w) ==
    [bals EXCEPT ![w] =
        [present |-> TRUE,
         balance |-> StartingBalance,
         totalEarned |-> StartingBalance,
         totalSpent |-> 0,
         transactions |-> <<Tx("deposit", StartingBalance, "Welcome bonus")>>]]

getOrCreateBalance(bals, w) ==
    IF ~bals[w].present
    THEN [bals EXCEPT ![w] =
            [present |-> TRUE,
             balance |-> StartingBalance,
             totalEarned |-> StartingBalance,
             totalSpent |-> 0,
             transactions |-> <<Tx("deposit", StartingBalance, "Welcome bonus")>>]]
    ELSE bals

addTransaction(bals, w, type, amount, description) ==
    LET b == getOrCreateBalance(bals, w)
    IN [b EXCEPT ![w].transactions =
            Last(Append(b[w].transactions, Tx(type, amount, description)), MaxPlayerTx)]

\* getPlayerBalance: the state after the call, and the value returned
getPlayerBalance(bals, w) ==
    LET b == getOrCreateBalance(bals, w)
    IN [bals |-> b, result |-> b[w].balance]

\* addBalance that forgets the totalEarned bookkeeping
addBalanceNoEarned(bals, w, amount, description) ==
    LET b == getOrCreateBalance(bals, w)
        c == [b EXCEPT ![w].balance = @ + amount]
    IN addTransaction(c, w, "earn", amount, description)

addBalance(bals, w, amount, description) ==
    LET b == getOrCreateBalance(bals, w)
        c == [b EXCEPT ![w].balance = @ + amount, ![w].totalEarned = @ + amount]
    IN addTransaction(c, w, "earn", amount, description)

\* deductBalance without the insufficient-balance check
deductBalanceUnchecked(bals, w, amount, description) ==
    LET b == getOrCreateBalance(bals, w)
        c == [b EXCEPT ![w].balance = @ - amount, ![w].totalSpent = @ + amount]
    IN [bals |-> addTransaction(c, w, "spend", amount, description), result |-> TRUE]

\* deductBalance: the state after the call, and the boolean returned
deductBalance(bals, w, amount, description) ==
    LET b == getOrCreateBalance(bals, w)
    IN IF b[w].balance < amount
       THEN [bals |-> b, result |-> FALSE]
       ELSE LET c == [b EXCEPT ![w].balance = @ - amount, ![w].totalSpent = @ + amount]
            IN [bals |-> addTransaction(c, w, "spend", amount, description),
                result |-> TRUE]

\* transferTokens that looks the receiver up before it checks the sender
transferTokensEager(bals, fromWallet, toWallet, amount) ==
    LET b == getOrCreateBalance(getOrCreateBalance(bals, toWallet), fromWallet)
    IN IF b[fromWallet].balance < amount
       THEN [bals |-> b, result |-> FALSE]
       ELSE LET c == [b EXCEPT ![fromWallet].balance = @ - amount,
                               ![fromWallet].totalSpent = @ + amount]
                d == addTransaction(c, fromWallet, "spend", amount, "Transfer to")
                f == [d EXCEPT ![toWallet].balance = @ + amount,
                               ![toWallet].totalEarned = @ + amount]
            IN [bals |-> addTransaction(f, toWallet, "earn", amount, "Transfer from"),
                result |-> TRUE]

transferTokens(bals, fromWallet, toWallet, amount) ==
    LET b == getOrCreateBalance(bals, fromWallet)
    IN IF b[fromWallet].balance < amount
       THEN [bals |-> b, result |-> FALSE]
       ELSE LET c == [b EXCEPT ![fromWallet].balance = @ - amount,
                               ![fromWallet].totalSpent = @ + amount]
                d == addTransaction(c, fromWallet, "spend", amount, "Transfer to")
                e == getOrCreateBalance(d, toWallet)
                f == [e EXCEPT ![toWallet].balance = @ + amount,
                               ![toWallet].totalEarned = @ + amount]
            IN [bals |-> addTransaction(f, toWallet, "earn", amount, "Transfer from"),
                result |-> TRUE]

(***************************************************************************)
(* House ledger (HouseWalletService)                                       *)
(***************************************************************************)
HouseTx(t, a) == [type |-> t, amount |-> a]

addFunds(hs, amount) ==
    LET collected == hs.totalCollected + amount
    IN [hs EXCEPT !.totalCollected = collected,
                  !.profit = collected - hs.totalPaidOut,
                  !.transactionCount = @ + 1]

addFundsTx(txs, amount) ==
    Last(Append(txs, HouseTx("collection", amount)), MaxHouseTx)

\* a deductFunds that pays only what the house has
deductFundsBankroll(hs, amount) ==
    IF hs.totalCollected - hs.totalPaidOut < amount THEN hs
    ELSE LET paid == hs.totalPaidOut + amount
         IN [hs EXCEPT !.totalPaidOut = paid,
                       !.profit = hs.totalCollected - paid,
                       !.transactionCount = @ + 1]

\* deductFunds: no bankroll check ("allow house to go negative")
deductFunds(hs, amount) ==
    LET paid == hs.totalPaidOut + amount
    IN [hs EXCEPT !.totalPaidOut = paid,
                  !.profit = hs.totalCollected - paid,
                  !.transactionCount = @ + 1]

deductFundsTx(txs, amount) ==
    Last(Append(txs, HouseTx("payout", amount)), MaxHouseTx)

(***************************************************************************)
(* Round state machine (GameStateService)                                  *)
(***************************************************************************)
FreeObj ==
    [phase |-> "free", bets |-> <<>>, totalBetAmount |-> 0,
     winningNumber |-> NoNumber, winningBets |-> <<>>, lastWinnings |-> 0,
     roundNumber |-> 0]

\* the object literal of initializeGame
NewGame ==
    [phase |-> "betting", bets |-> <<>>, totalBetAmount |-> 0,
     winningNumber |-> NoNumber, winningBets |-> <<>>, lastWinnings |-> 0,
     roundNumber |-> 1]

\* objects still reachable: from the map or from a handler
InUse(gs, lc) ==
    {gs[a] : a \in Accounts} \cup {lc[p].gs : p \in Procs} \cup {lc[p].ro : p \in Procs}

\* `new` of a GameState object: an identity no live reference has
NewObj == CHOOSE o \in ObjIds : o \notin InUse(gameStates, loc)
                                /\ \A o2 \in ObjIds : o2 < o => o2 \in InUse(gameStates, loc)

\* unreachable objects are reclaimed
collect(h, gs, lc) ==
    [o \in ObjIds |-> IF o \in InUse(gs, lc) THEN h[o] ELSE FreeObj]

\* initializeGame that stores the new object under every wallet address
initializeGameAllWallets(gs, h, w) ==
    [gameStates |-> [a \in Accounts |-> NewObj],
     heap |-> [h EXCEPT ![NewObj] = NewGame]]

\* initializeGame: always builds a new object and stores it in the map
initializeGame(gs, h, w) ==
    [gameStates |-> [gs EXCEPT ![w] = NewObj],
     heap |-> [h EXCEPT ![NewObj] = NewGame]]

\* a findIndex that never finds the bet
existingBetIndexNone(bets, bet) == 0

existingBetIndex(bets, bet) ==
    LET I == {i \in 1..Len(bets) : bets[i].type = bet.type /\ bets[i].value = bet.value}
    IN IF I = {} THEN 0 ELSE CHOOSE i \in I : \A j \in I : i <= j

\* placeBet without the phase check
placeBetThrowsAnyPhase(gs, h, w) == gs[w] = NoObj

placeBetThrows(gs, h, w) == gs[w] = NoObj \/ h[gs[w]].phase # "betting"

\* placeBet that adds to totalBetAmount only when it pushes a new entry
placeBetStaleTotal(gs, h, w, bet) ==
    LET o == gs[w]
        i == existingBetIndex(h[o].bets, bet)
        bets == IF i > 0
                THEN [h[o].bets EXCEPT ![i].amount = @ + bet.amount]
                ELSE Append(h[o].bets, bet)
    IN [h EXCEPT ![o].bets = bets,
                 ![o].totalBetAmount = IF i > 0 THEN @ ELSE @ + bet.amount]

placeBet(gs, h, w, bet) ==
    LET o == gs[w]
        i == existingBetIndex(h[o].bets, bet)
        bets == IF i > 0
                THEN [h[o].bets EXCEPT ![i].amount = @ + bet.amount]
                ELSE Append(h[o].bets, bet)
    IN [h EXCEPT ![o].bets = bets, ![o].totalBetAmount = SumAmounts(bets)]

clearBetsThrows(gs, h, w) == gs[w] = NoObj \/ h[gs[w]].phase # "betting"

clearBets(gs, h, w) ==
    [h EXCEPT ![gs[w]].bets = <<>>, ![gs[w]].totalBetAmount = 0]

\* startSpin without the empty-bets check
startSpinThrowsNoBetsOk(gs, h, w) ==
    \/ gs[w] = NoObj
    \/ h[gs[w]].phase # "betting"

startSpinThrows(gs, h, w) ==
    \/ gs[w] = NoObj
    \/ h[gs[w]].phase # "betting"
    \/ Len(h[gs[w]].bets) = 0

startSpin(gs, h, w) == [h EXCEPT ![gs[w]].phase = "spinning"]

\* the message of the error startSpin throws ("none": it does not throw)
startSpinError(gs, h, w) ==
    IF gs[w] = NoObj \/ h[gs[w]].phase # "betting"
    THEN "Cannot start spin in current game phase"
    ELSE IF Len(h[gs[w]].bets) = 0 THEN "No bets placed" ELSE "none"

\* endSpin without the phase check
endSpinThrowsAnyPhase(gs, h, w) == gs[w] = NoObj

endSpinThrows(gs, h, w) == gs[w] = NoObj \/ h[gs[w]].phase # "spinning"

endSpin(gs, h, w, winningNumber, winningBets, totalWinnings) ==
    [h EXCEPT ![gs[w]].phase = "result",
              ![gs[w]].winningNumber = winningNumber,
              ![gs[w]].winningBets = winningBets,
              ![gs[w]].lastWinnings = totalWinnings]

\* startNewRound that forgets roundNumber++
startNewRoundSameNumber(gs, h, w) ==
    [h EXCEPT ![gs[w]] =
        [phase |-> "betting", bets |-> <<>>, totalBetAmount |-> 0,
         winningNumber |-> NoNumber, winningBets |-> <<>>, lastWinnings |-> 0,
         roundNumber |-> h[gs[w]].roundNumber]]

\* startNewRound on an existing round (no phase check in the code)
startNewRound(gs, h, w) ==
    [h EXCEPT ![gs[w]] =
        [phase |-> "betting", bets |-> <<>>, totalBetAmount |-> 0,
         winningNumber |-> NoNumber, winningBets |-> <<>>, lastWinnings |-> 0,
         roundNumber |-> h[gs[w]].roundNumber + 1]]

(***************************************************************************)
(* Stats aggregator (GameStateService.updatePlayerStats)                   *)
(***************************************************************************)
RECURSIVE GCD(_, _)
GCD(x, y) == IF y = 0 THEN x ELSE GCD(y, x % y)

Abs(x) == IF x < 0 THEN -x ELSE x

\* an exact fraction n/d, d > 0, in lowest terms
Rat(n, d) ==
    LET g == GCD(Abs(n), d)
    IN IF g = 0 THEN [num |-> 0, den |-> 1] ELSE [num |-> n \div g, den |-> d \div g]

NoStats ==
    [present |-> FALSE, totalRounds |-> 0, totalWins |-> 0, totalLosses |-> 0,
     totalWinnings |-> 0, biggestWin |-> 0, favoriteNumbers |-> <<>>,
     winRate |-> Rat(0, 1), averageBet |-> Rat(0, 1)]

\* an includes that never finds the value
InSeqNever(x, s) == FALSE

\* Array.prototype.includes
InSeq(x, s) == \E i \in 1..Len(s) : s[i] = x

RECURSIVE favoriteNumbers(_, _)
favoriteNumbers(fav, bets) ==
    IF bets = <<>> THEN fav
    ELSE LET bet == Head(bets)
             pushed == IF InSeq(bet.value.n, fav) THEN fav ELSE Append(fav, bet.value.n)
             cut == IF Len(pushed) > MaxFavorites THEN SubSeq(pushed, 1, MaxFavorites)
                    ELSE pushed
         IN IF bet.type = "number" /\ bet.value.k = "num"
            THEN favoriteNumbers(cut, Tail(bets))
            ELSE favoriteNumbers(fav, Tail(bets))

\* a stats update that never counts a loss
updatePlayerStatsNoLosses(ps, w, gameState, totalWinnings) ==
    LET s0 == IF ps[w].present THEN ps[w] ELSE [NoStats EXCEPT !.present = TRUE]
        rounds == s0.totalRounds + 1
        isWin == totalWinnings > gameState.totalBetAmount
        netWinnings == totalWinnings - gameState.totalBetAmount
        wins == IF isWin THEN s0.totalWins + 1 ELSE s0.totalWins
        stake == gameState.totalBetAmount
    IN [ps EXCEPT ![w] =
         [present |-> TRUE,
          totalRounds |-> rounds,
          totalWins |-> wins,
          totalLosses |-> s0.totalLosses,
          totalWinnings |-> IF isWin THEN s0.totalWinnings + netWinnings
                            ELSE s0.totalWinnings - stake,
          biggestWin |-> IF isWin THEN Max(s0.biggestWin, netWinnings) ELSE s0.biggestWin,
          favoriteNumbers |-> favoriteNumbers(s0.favoriteNumbers, gameState.bets),
          winRate |-> Rat(wins * 100, rounds),
          averageBet |-> Rat(s0.averageBet.num * (rounds - 1) + stake * s0.averageBet.den,
                             s0.averageBet.den * rounds)]]

\* updatePlayerStats, the averageBet and the winRate as exact fractions
updatePlayerStats(ps, w, gameState, totalWinnings) ==
    LET s0 == IF ps[w].present THEN ps[w] ELSE [NoStats EXCEPT !.present = TRUE]
        rounds == s0.totalRounds + 1
        isWin == totalWinnings > gameState.totalBetAmount
        netWinnings == totalWinnings - gameState.totalBetAmount
        wins == IF isWin THEN s0.totalWins + 1 ELSE s0.totalWins
        stake == gameState.totalBetAmount
    IN [ps EXCEPT ![w] =
         [present |-> TRUE,
          totalRounds |-> rounds,
          totalWins |-> wins,
          totalLosses |-> IF isWin THEN s0.totalLosses ELSE s0.totalLosses + 1,
          totalWinnings |-> IF isWin THEN s0.totalWinnings + netWinnings
                            ELSE s0.totalWinnings - stake,
          biggestWin |-> IF isWin THEN Max(s0.biggestWin, netWinnings) ELSE s0.biggestWin,
          favoriteNumbers |-> favoriteNumbers(s0.favoriteNumbers, gameState.bets),
          winRate |-> Rat(wins * 100, rounds),
          averageBet |-> Rat(s0.averageBet.num * (rounds - 1) + stake * s0.averageBet.den,
                             s0.averageBet.den * rounds)]]

(***************************************************************************)
(* Request handlers (routes/game.ts)                                       *)
(***************************************************************************)
NoBet == Bet("none", StrV(""), 0, 0)

NoReq == [op |-> "none", walletAddress |-> "", bet |-> NoBet, amount |-> 0]

Request(op, w, bet, amount) ==
    [op |-> op, walletAddress |-> w, bet |-> bet, amount |-> amount]

\* the handler's locals; ok, ro and rn are history: the discarded result of
\* deductBalance, and the object and roundNumber the service call acted on
NoLoc ==
    [gs |-> NoObj, balance |-> 0, winningNumber |-> NoNumber, winningBets |-> <<>>,
     totalWinnings |-> 0, totalRefund |-> 0, newBalance |-> 0,
     ok |-> FALSE, ro |-> NoObj, rn |-> 0]

\* the variables no step of a handler other than the one that records them
\* changes: the history, and the clock (a run of requests takes place at one
\* instant, so the lastActivity a service call writes is the value it has)
hist == <<escrowed, refunded, cleared, settled, endSpins, withdrawn, clock>>

\* the request budget: a request naming the accounts ws is admitted
Admit(ws) ==
    LET other == IF ws = {FirstAccount} THEN 0 ELSE 1
    IN /\ nreq.total < MaxRequests
       /\ nreq.other + other <= MaxOtherRequests
       /\ nreq.total = 0 => other = 0
       /\ nreq' = [total |-> nreq.total + 1, other |-> nreq.other + other]

\* a request arrives and runs up to its first await; it takes the first idle
\* handler slot (the slots are interchangeable)
Arrive(p, r, label, lc) ==
    /\ pc[p] = "idle"
    /\ \A q \in Procs : pc[q] = "idle" => p <= q
    /\ Admit({r.walletAddress})
    /\ req' = [req EXCEPT ![p] = r]
    /\ pc' = [pc EXCEPT ![p] = label]
    /\ loc' = [loc EXCEPT ![p] = lc]

\* the handler resumes and runs up to its next await
Goto(p, label, lc) ==
    /\ pc' = [pc EXCEPT ![p] = label]
    /\ loc' = [loc EXCEPT ![p] = lc]
    /\ UNCHANGED <<req, nreq>>

\* the handler sends its response (or an error response) and ends
Return(p) ==
    /\ pc' = [pc EXCEPT ![p] = "idle"]
    /\ loc' = [loc EXCEPT ![p] = NoLoc]
    /\ req' = [req EXCEPT ![p] = NoReq]
    /\ UNCHANGED nreq

\* the round objects after a step that leaves, or that changes, the map
Store(h) == heap' = collect(h, gameStates, loc')

StoreMap(gs, h) == gameStates' = gs /\ heap' = collect(h, gs, loc')

W(p) == req[p].walletAddress

(* ---- POST /initialize ------------------------------------------------ *)
InitializeGame(p, w) ==
    /\ LET r == initializeGame(gameStates, heap, w)
       IN /\ Arrive(p, Request("initialize", w, NoBet, 0), "init_bal",
                    [NoLoc EXCEPT !.gs = r.gameStates[w]])
          /\ StoreMap(r.gameStates, r.heap)
    /\ escrowed' = [escrowed EXCEPT ![w] = 0]
    /\ endSpins' = [endSpins EXCEPT ![w] = 0]
    /\ UNCHANGED <<playerStats, balances, houseStats, houseTx, ret, withdrawn,
                   refunded, cleared, settled, clock>>

InitializeBalance(p) ==
    /\ pc[p] = "init_bal"
    /\ LET r == getPlayerBalance(balances, W(p))
       IN /\ balances' = r.bals
          /\ Goto(p, "init_resp", [loc[p] EXCEPT !.balance = r.result])
    /\ Store(heap)
    /\ UNCHANGED <<gameStates, playerStats, houseStats, houseTx, ret, hist>>

InitializeRespond(p) ==
    /\ pc[p] = "init_resp"
    /\ Return(p)
    /\ Store(heap)
    /\ UNCHANGED <<gameStates, playerStats, balances, houseStats, houseTx, ret, hist>>

(* ---- POST /bet ------------------------------------------------------- *)
BetGetState(p, w, bet) ==
    /\ Arrive(p, Request("bet", w, bet, bet.amount), "bet_check",
              [NoLoc EXCEPT !.gs = gameStates[w]])
    /\ Store(heap)
    /\ UNCHANGED <<gameStates, playerStats, balances, houseStats, houseTx, ret, hist>>

BetCheckPhase(p) ==
    /\ pc[p] = "bet_check"
    /\ IF loc[p].gs = NoObj \/ heap[loc[p].gs].phase # "betting"
       THEN /\ Return(p)
            /\ UNCHANGED balances
       ELSE LET r == getPlayerBalance(balances, W(p))
            IN /\ balances' = r.bals
               /\ Goto(p, "bet_place", [loc[p] EXCEPT !.balance = r.result])
    /\ Store(heap)
    /\ UNCHANGED <<gameStates, playerStats, houseStats, houseTx, ret, hist>>

BetPlace(p) ==
    /\ pc[p] = "bet_place"
    /\ IF loc[p].balance < req[p].amount \/ placeBetThrows(gameStates, heap, W(p))
       THEN /\ Return(p)
            /\ Store(heap)
       ELSE /\ Goto(p, "bet_deduct",
                    [loc[p] EXCEPT !.ro = gameStates[W(p)],
                                   !.rn = heap[gameStates[W(p)]].roundNumber])
            /\ Store(placeBet(gameStates, heap, W(p), req[p].bet))
    /\ UNCHANGED <<gameStates, playerStats, balances, houseStats, houseTx, ret, hist>>

BetDeduct(p) ==
    /\ pc[p] = "bet_deduct"
    /\ LET r == deductBalance(balances, W(p), req[p].amount, "Game bet")
           sameRound == /\ gameStates[W(p)] = loc[p].ro
                        /\ heap[loc[p].ro].roundNumber = loc[p].rn
                        /\ heap[loc[p].ro].phase \in {"betting", "spinning"}
       IN /\ balances' = r.bals
          /\ Goto(p, "bet_newbal", [loc[p] EXCEPT !.ok = r.result])
          /\ escrowed' = IF r.result /\ sameRound
                         THEN [escrowed EXCEPT ![W(p)] = @ + req[p].amount]
                         ELSE escrowed
    /\ Store(heap)
    /\ UNCHANGED <<gameStates, playerStats, houseStats, houseTx, ret, withdrawn,
                   refunded, cleared, settled, endSpins, clock>>

BetNewBalance(p) ==
    /\ pc[p] = "bet_newbal"
    /\ LET r == getPlayerBalance(balances, W(p))
       IN /\ balances' = r.bals
          /\ Goto(p, "bet_resp", [loc[p] EXCEPT !.newBalance = r.result])
    /\ Store(heap)
    /\ UNCHANGED <<gameStates, playerStats, houseStats, houseTx, ret, hist>>

BetRespond(p) ==
    /\ pc[p] = "bet_resp"
    /\ Return(p)
    /\ Store(heap)
    /\ UNCHANGED <<gameStates, playerStats, balances, houseStats, houseTx, ret, hist>>

(* ---- POST /clear-bets ------------------------------------------------ *)
ClearGetState(p, w) ==
    /\ Arrive(p, Request("clear", w, NoBet, 0), "clear_check",
              [NoLoc EXCEPT !.gs = gameStates[w]])
    /\ Store(heap)
    /\ UNCHANGED <<gameStates, playerStats, balances, houseStats, houseTx, ret, hist>>

\* the call of gameStateService.clearBets and what follows it up to the await
ClearCall(p, lc) ==
    IF clearBetsThrows(gameStates, heap, W(p))
    THEN /\ Return(p)
         /\ Store(heap)
         /\ UNCHANGED cleared
    ELSE /\ Goto(p, "clear_newbal", lc)
         /\ Store(clearBets(gameStates, heap, W(p)))
         /\ cleared' = [cleared EXCEPT ![W(p)] = @ + heap[gameStates[W(p)]].totalBetAmount]

ClearRefund(p) ==
    /\ pc[p] = "clear_check"
    /\ IF loc[p].gs = NoObj \/ heap[loc[p].gs].phase # "betting"
       THEN /\ Return(p)
            /\ Store(heap)
            /\ UNCHANGED <<balances, escrowed, refunded, cleared>>
       ELSE LET totalRefund == heap[loc[p].gs].totalBetAmount
                lc == [loc[p] EXCEPT !.totalRefund = totalRefund]
            IN IF totalRefund > 0
               THEN /\ balances' = addBalance(balances, W(p), totalRefund, "Game winnings")
                    /\ Goto(p, "clear_clear", lc)
                    /\ Store(heap)
                    /\ refunded' = [refunded EXCEPT ![W(p)] = @ + totalRefund]
                    /\ escrowed' = [escrowed EXCEPT ![W(p)] = @ - totalRefund]
                    /\ UNCHANGED cleared
               ELSE /\ ClearCall(p, lc)
                    /\ UNCHANGED <<balances, escrowed, refunded>>
    /\ UNCHANGED <<gameStates, playerStats, houseStats, houseTx, ret, withdrawn, settled,
                   endSpins, clock>>

ClearClear(p) ==
    /\ pc[p] = "clear_clear"
    /\ ClearCall(p, loc[p])
    /\ UNCHANGED <<gameStates, playerStats, balances, houseStats, houseTx, ret, withdrawn,
                   escrowed, refunded, settled, endSpins, clock>>

ClearNewBalance(p) ==
    /\ pc[p] = "clear_newbal"
    /\ LET r == getPlayerBalance(balances, W(p))
       IN /\ balances' = r.bals
          /\ Goto(p, "clear_resp", [loc[p] EXCEPT !.newBalance = r.result])
    /\ Store(heap)
    /\ UNCHANGED <<gameStates, playerStats, houseStats, houseTx, ret, hist>>

ClearRespond(p) ==
    /\ pc[p] = "clear_resp"
    /\ Return(p)
    /\ Store(heap)
    /\ UNCHANGED <<gameStates, playerStats, balances, houseStats, houseTx, ret, hist>>

(* ---- POST /spin ------------------------------------------------------ *)
SpinGetState(p, w) ==
    /\ Arrive(p, Request("spin", w, NoBet, 0), "spin_check",
              [NoLoc EXCEPT !.gs = gameStates[w]])
    /\ Store(heap)
    /\ UNCHANGED <<gameStates, playerStats, balances, houseStats, houseTx, ret, hist>>

SpinStart(p) ==
    /\ pc[p] = "spin_check"
    /\ IF \/ loc[p].gs = NoObj
          \/ heap[loc[p].gs].phase # "betting"
          \/ Len(heap[loc[p].gs].bets) = 0
          \/ startSpinThrows(gameStates, heap, W(p))
       THEN /\ Return(p)
            /\ Store(heap)
       ELSE /\ Goto(p, "spin_end", loc[p])
            /\ Store(startSpin(gameStates, heap, W(p)))
    /\ UNCHANGED <<gameStates, playerStats, balances, houseStats, houseTx, ret, hist>>

\* the values array[0] % 37 can take, restricted to the sampled slots
generateSecureRandomNumber == SlotChoices \cap (0..(NumSlots - 1))

SpinEnd(p) ==
    /\ pc[p] = "spin_end"
    /\ \E winningNumber \in generateSecureRandomNumber :
         LET calc == calculateWinnings(heap[loc[p].gs].bets, winningNumber)
             o == gameStates[W(p)]
         IN IF endSpinThrows(gameStates, heap, W(p))
            THEN /\ Return(p)
                 /\ Store(heap)
                 /\ UNCHANGED <<playerStats, escrowed, endSpins>>
            ELSE LET h == endSpin(gameStates, heap, W(p), winningNumber,
                                  calc.winningBets, calc.totalWinnings)
                 IN /\ Goto(p, "spin_settle",
                            [loc[p] EXCEPT !.winningNumber = winningNumber,
                                           !.winningBets = calc.winningBets,
                                           !.totalWinnings = calc.totalWinnings,
                                           !.ro = o,
                                           !.rn = heap[o].roundNumber])
                    /\ Store(h)
                    /\ playerStats' = updatePlayerStats(playerStats, W(p), h[o],
                                                        calc.totalWinnings)
                    /\ escrowed' = [escrowed EXCEPT ![W(p)] = 0]
                    /\ endSpins' = [endSpins EXCEPT ![W(p)] = @ + 1]
    /\ UNCHANGED <<gameStates, balances, houseStats, houseTx, ret, withdrawn,
                   refunded, cleared, settled, clock>>

SpinSettle(p) ==
    /\ pc[p] = "spin_settle"
    /\ IF loc[p].totalWinnings > 0
       THEN /\ balances' = addBalance(balances, W(p), loc[p].totalWinnings, "Game winnings")
            /\ Goto(p, "spin_house", loc[p])
            /\ UNCHANGED <<houseStats, houseTx, settled>>
       ELSE /\ houseStats' = addFunds(houseStats, heap[loc[p].gs].totalBetAmount)
            /\ houseTx' = addFundsTx(houseTx, heap[loc[p].gs].totalBetAmount)
            /\ Goto(p, "spin_newbal", loc[p])
            /\ settled' = [settled EXCEPT ![W(p)] = @ + 1]
            /\ UNCHANGED balances
    /\ Store(heap)
    /\ UNCHANGED <<gameStates, playerStats, ret, withdrawn, escrowed, refunded, cleared,
                   endSpins, clock>>

\* the house entry of a win with the whole payout instead of payout - stake
SpinHouseGross(p) ==
    /\ pc[p] = "spin_house"
    /\ LET amount == loc[p].totalWinnings
       IN /\ houseStats' = deductFunds(houseStats, amount)
          /\ houseTx' = deductFundsTx(houseTx, amount)
    /\ Goto(p, "spin_newbal", loc[p])
    /\ settled' = [settled EXCEPT ![W(p)] = @ + 1]
    /\ Store(heap)
    /\ UNCHANGED <<gameStates, playerStats, balances, ret, withdrawn, escrowed, refunded,
                   cleared, endSpins, clock>>

SpinHouse(p) ==
    /\ pc[p] = "spin_house"
    /\ LET amount == loc[p].totalWinnings - heap[loc[p].gs].totalBetAmount
       IN /\ houseStats' = deductFunds(houseStats, amount)
          /\ houseTx' = deductFundsTx(houseTx, amount)
    /\ Goto(p, "spin_newbal", loc[p])
    /\ settled' = [settled EXCEPT ![W(p)] = @ + 1]
    /\ Store(heap)
    /\ UNCHANGED <<gameStates, playerStats, balances, ret, withdrawn, escrowed, refunded,
                   cleared, endSpins, clock>>

SpinNewBalance(p) ==
    /\ pc[p] = "spin_newbal"
    /\ LET r == getPlayerBalance(balances, W(p))
       IN /\ balances' = r.bals
          /\ Goto(p, "spin_resp", [loc[p] EXCEPT !.newBalance = r.result])
    /\ Store(heap)
    /\ UNCHANGED <<gameStates, playerStats, houseStats, houseTx, ret, hist>>

SpinRespond(p) ==
    /\ pc[p] = "spin_resp"
    /\ Return(p)
    /\ Store(heap)
    /\ UNCHANGED <<gameStates, playerStats, balances, houseStats, houseTx, ret, hist>>

(* ---- POST /new-round ------------------------------------------------- *)
NewRoundStart(p, w) ==
    /\ LET r == IF gameStates[w] = NoObj
                THEN initializeGame(gameStates, heap, w)
                ELSE [gameStates |-> gameStates,
                      heap |-> startNewRound(gameStates, heap, w)]
       IN /\ Arrive(p, Request("newround", w, NoBet, 0), "nr_state", NoLoc)
          /\ StoreMap(r.gameStates, r.heap)
    /\ escrowed' = [escrowed EXCEPT ![w] = 0]
    /\ endSpins' = [endSpins EXCEPT ![w] = 0]
    /\ UNCHANGED <<playerStats, balances, houseStats, houseTx, ret, withdrawn,
                   refunded, cleared, settled, clock>>

NewRoundGetState(p) ==
    /\ pc[p] = "nr_state"
    /\ Goto(p, "nr_bal", [loc[p] EXCEPT !.gs = gameStates[W(p)]])
    /\ Store(heap)
    /\ UNCHANGED <<gameStates, playerStats, balances, houseStats, houseTx, ret, hist>>

NewRoundBalance(p) ==
    /\ pc[p] = "nr_bal"
    /\ LET r == getPlayerBalance(balances, W(p))
       IN /\ balances' = r.bals
          /\ Goto(p, "nr_resp", [loc[p] EXCEPT !.balance = r.result])
    /\ Store(heap)
    /\ UNCHANGED <<gameStates, playerStats, houseStats, houseTx, ret, hist>>

NewRoundRespond(p) ==
    /\ pc[p] = "nr_resp"
    /\ Return(p)
    /\ Store(heap)
    /\ UNCHANGED <<gameStates, playerStats, balances, houseStats, houseTx, ret, hist>>

(* ---- POST /withdraw -------------------------------------------------- *)
WithdrawGetBalance(p, w, amount) ==
    /\ LET r == getPlayerBalance(balances, w)
       IN /\ Arrive(p, Request("withdraw", w, NoBet, amount), "wd_check",
                    [NoLoc EXCEPT !.balance = r.result])
          /\ balances' = r.bals
    /\ Store(heap)
    /\ UNCHANGED <<gameStates, playerStats, houseStats, houseTx, ret, hist>>

WithdrawDeduct(p) ==
    /\ pc[p] = "wd_check"
    /\ IF loc[p].balance < req[p].amount
       THEN /\ Return(p)
            /\ UNCHANGED <<balances, withdrawn>>
       ELSE LET r == deductBalance(balances, W(p), req[p].amount, "Game bet")
            IN /\ balances' = r.bals
               /\ Goto(p, "wd_newbal", [loc[p] EXCEPT !.ok = r.result])
               /\ withdrawn' = IF r.result THEN withdrawn + req[p].amount ELSE withdrawn
    /\ Store(heap)
    /\ UNCHANGED <<gameStates, playerStats, houseStats, houseTx, ret,
                   escrowed, refunded, cleared, settled, endSpins, clock>>

WithdrawNewBalance(p) ==
    /\ pc[p] = "wd_newbal"
    /\ LET r == getPlayerBalance(balances, W(p))
       IN /\ balances' = r.bals
          /\ Goto(p, "wd_resp", [loc[p] EXCEPT !.newBalance = r.result])
    /\ Store(heap)
    /\ UNCHANGED <<gameStates, playerStats, houseStats, houseTx, ret, hist>>

WithdrawRespond(p) ==
    /\ pc[p] = "wd_resp"
    /\ Return(p)
    /\ Store(heap)
    /\ UNCHANGED <<gameStates, playerStats, balances, houseStats, houseTx, ret, hist>>

(* ---- TokenServiceClass.transferTokens, called directly ---------------- *)
NoRet == [op |-> "none", fromWallet |-> "", toWallet |-> "", amount |-> 0, result |-> FALSE]

Transfer(fromWallet, toWallet, amount) ==
    /\ Admit({fromWallet, toWallet})
    /\ LET r == transferTokens(balances, fromWallet, toWallet, amount)
       IN /\ balances' = r.bals
          /\ ret' = [op |-> "transfer", fromWallet |-> fromWallet, toWallet |-> toWallet,
                      amount |-> amount, result |-> r.result]
    /\ UNCHANGED <<gameStates, heap, playerStats, houseStats, houseTx, pc, req, loc, hist>>

(***************************************************************************)
(* Specification                                                           *)
(***************************************************************************)
Init ==
    /\ gameStates = [a \in Accounts |-> NoObj]
    /\ heap = [o \in ObjIds |-> FreeObj]
    /\ playerStats = [a \in Accounts |-> NoStats]
    /\ balances = [a \in Accounts |-> NoBalance]
    /\ houseStats = [totalCollected |-> 0, totalPaidOut |-> 0, profit |-> 0,
                     transactionCount |-> 0]
    /\ houseTx = <<>>
    /\ pc = [p \in Procs |-> "idle"]
    /\ req = [p \in Procs |-> NoReq]
    /\ loc = [p \in Procs |-> NoLoc]
    /\ ret = NoRet
    /\ nreq = [total |-> 0, other |-> 0]
    /\ escrowed = [a \in Accounts |-> 0]
    /\ refunded = [a \in Accounts |-> 0]
    /\ cleared = [a \in Accounts |-> 0]
    /\ settled = [a \in Accounts |-> 0]
    /\ endSpins = [a \in Accounts |-> 0]
    /\ withdrawn = 0
    /\ clock = [now |-> 0, lastActivity |-> [a \in Accounts |-> 0]]

Next ==
    \/ \E p \in Procs, w \in Accounts : InitializeGame(p, w)
    \/ \E p \in Procs : InitializeBalance(p)
    \/ \E p \in Procs : InitializeRespond(p)
    \/ \E p \in Procs, w \in Accounts, bet \in BetChoices : BetGetState(p, w, bet)
    \/ \E p \in Procs : BetCheckPhase(p)
    \/ \E p \in Procs : BetPlace(p)
    \/ \E p \in Procs : BetDeduct(p)
    \/ \E p \in Procs : BetNewBalance(p)
    \/ \E p \in Procs : BetRespond(p)
    \/ \E p \in Procs, w \in Accounts : ClearGetState(p, w)
    \/ \E p \in Procs : ClearRefund(p)
    \/ \E p \in Procs : ClearClear(p)
    \/ \E p \in Procs : ClearNewBalance(p)
    \/ \E p \in Procs : ClearRespond(p)
    \/ \E p \in Procs, w \in Accounts : SpinGetState(p, w)
    \/ \E p \in Procs : SpinStart(p)
    \/ \E p \in Procs : SpinEnd(p)
    \/ \E p \in Procs : SpinSettle(p)
    \/ \E p \in Procs : SpinHouse(p)
    \/ \E p \in Procs : SpinNewBalance(p)
    \/ \E p \in Procs : SpinRespond(p)
    \/ \E p \in Procs, w \in Accounts : NewRoundStart(p, w)
    \/ \E p \in Procs : NewRoundGetState(p)
    \/ \E p \in Procs : NewRoundBalance(p)
    \/ \E p \in Procs : NewRoundRespond(p)
    \/ \E p \in Procs, w \in Accounts, amount \in AmountChoices : WithdrawGetBalance(p, w, amount)
    \/ \E p \in Procs : WithdrawDeduct(p)
    \/ \E p \in Procs : WithdrawNewBalance(p)
    \/ \E p \in Procs : WithdrawRespond(p)

\* the server: the routes of routes/game.ts
Spec == Init /\ [][Next]_vars

NextApi ==
    \/ Next
    \/ \E fromWallet \in Accounts, toWallet \in Accounts, amount \in AmountChoices :
          Transfer(fromWallet, toWallet, amount)

\* the server together with direct callers of the TokenServiceClass API
SpecApi == Init /\ [][NextApi]_vars

(***************************************************************************)
(* Properties                                                              *)
(***************************************************************************)
Round(w) == heap[gameStates[w]]

HasRound(w) == gameStates[w] # NoObj

\* no request for account w is in progress
Quiet(w) == \A p \in Procs : pc[p] # "idle" => W(p) # w

AllIdle == \A p \in Procs : pc[p] = "idle"

\* C1: whenever an account's round is in phase result, every settlement of
\* that account has been applied to the ledgers: the number of completed
\* ledger settlements equals the number of rounds endSpin has settled.
C1_SettlementAtomic ==
    \A w \in Accounts :
        (HasRound(w) /\ Round(w).phase = "result")
            => settled[w] = playerStats[w].totalRounds

\* C2: every step in which the spin handler credits the payout or records
\* the house entry is taken while the account's round is the round that was
\* spun (same object, same roundNumber) and is in phase result.
C2_LedgerOnlyInResult ==
    [][\A p \in Procs :
          (pc[p] \in {"spin_settle", "spin_house"} /\ pc'[p] # pc[p])
              => /\ HasRound(W(p))
                 /\ gameStates[W(p)] = loc[p].ro
                 /\ Round(W(p)).phase = "result"
                 /\ Round(W(p)).roundNumber = loc[p].rn]_vars

\* C3: once the requests of an account have completed, the pendingTotal of
\* its round in phase betting or spinning equals the amount debited for the
\* round's bets and not refunded.
C3_PendingBackedByEscrow ==
    \A w \in Accounts :
        (Quiet(w) /\ HasRound(w) /\ Round(w).phase \in {"betting", "spinning"})
            => Round(w).totalBetAmount = escrowed[w]

Created == {w \in Accounts : balances[w].present}

Pending(w) ==
    IF HasRound(w) /\ Round(w).phase \in {"betting", "spinning"}
    THEN Round(w).totalBetAmount ELSE 0

TotalCredits ==
    SetSum([w \in Accounts |-> balances[w].balance + Pending(w)], Accounts)
        + (houseStats.totalCollected - houseStats.totalPaidOut)

\* C4: between requests and as long as nothing was withdrawn, player
\* balances plus pending stakes plus house profit equal the starting grant
\* times the number of created accounts.
C4_CreditsConserved ==
    (AllIdle /\ withdrawn = 0)
        => TotalCredits = StartingBalance * Cardinality(Created)

\* the awaits at which a handler is between its first read of the account's
\* state and its last write to it
MutatingWindow ==
    {"bet_check", "bet_place", "bet_deduct", "clear_check", "clear_clear",
     "spin_check", "spin_end", "spin_settle", "spin_house", "wd_check"}

\* C5: at most one mutating handler per account is between its first read
\* and its last write.
C5_Serialized ==
    \A w \in Accounts :
        Cardinality({p \in Procs : pc[p] \in MutatingWindow /\ W(p) = w}) <= 1

\* C6: once the requests of an account have completed, the total refunded
\* by clear-bets equals the total pendingTotal that clearBets removed.
C6_RefundExact ==
    \A w \in Accounts : Quiet(w) => refunded[w] = cleared[w]

\* C7: every account satisfies balance = totalEarned - totalSpent.
C7_BalanceIdentity ==
    \A w \in Accounts :
        balances[w].present
            => balances[w].balance = balances[w].totalEarned - balances[w].totalSpent

\* C7 witness: a transfer from an account to itself has succeeded on an
\* account that has both earned beyond its grant and spent.
C7_Witness ==
    /\ ret.op = "transfer" /\ ret.result /\ ret.fromWallet = ret.toWallet
    /\ balances[ret.fromWallet].totalSpent > 0
    /\ balances[ret.fromWallet].totalEarned > StartingBalance
    /\ \E w \in Accounts : HasRound(w) /\ Round(w).totalBetAmount > 0

\* a step in which handler p calls deductBalance
DeductCall(p) ==
    /\ \/ pc[p] = "bet_deduct"
       \/ pc[p] = "wd_check" /\ loc[p].balance >= req[p].amount
    /\ pc'[p] # pc[p]

\* C8: no balance is ever negative, and a deductBalance whose amount exceeds
\* the balance returns false and leaves the account (balance, totalSpent,
\* transaction log) as it was.
C8_NeverNegative ==
    [][/\ \A w \in Accounts : balances'[w].balance >= 0
       /\ \A p \in Procs :
            (DeductCall(p) /\ balances[W(p)].present
                           /\ balances[W(p)].balance < req[p].amount)
                => /\ loc'[p].ok = FALSE
                   /\ balances'[W(p)] = balances[W(p)]]_vars

\* C8 witness: a deductBalance call has failed (the handler's balance check
\* passed before another request spent the credits).
C8_Witness ==
    \E p \in Procs :
        /\ pc[p] \in {"bet_newbal", "wd_newbal"}
        /\ loc[p].ok = FALSE
        /\ balances[W(p)].balance < req[p].amount

PhaseDiagram ==
    {<<"betting", "spinning">>, <<"spinning", "result">>, <<"result", "betting">>}

\* C9: the phase of an account's round changes only along betting ->
\* spinning -> result -> betting, and a round that is spinning, or betting
\* with pending bets, is never replaced by a fresh betting round.
C9_PhaseTransitions ==
    [][\A w \in Accounts :
          (gameStates[w] # NoObj /\ gameStates'[w] # NoObj)
              => LET old == heap[gameStates[w]]
                     new == heap'[gameStates'[w]]
                     fresh == /\ new.phase = "betting"
                              /\ new.bets = <<>>
                              /\ \/ gameStates'[w] # gameStates[w]
                                 \/ new.roundNumber # old.roundNumber
                 IN /\ old.phase # new.phase
                        => <<old.phase, new.phase>> \in PhaseDiagram
                    /\ (old.phase = "spinning"
                        \/ (old.phase = "betting" /\ old.bets # <<>>))
                        => ~fresh]_vars

\* C10: initializeGame on an account that has a round keeps that round (same
\* object, unchanged fields); without a round it creates one in phase betting.
C10_InitializeIdempotent ==
    [][\A p \in Procs :
          (pc[p] = "idle" /\ pc'[p] = "init_bal")
              => LET w == req'[p].walletAddress
                 IN IF gameStates[w] # NoObj
                    THEN /\ gameStates'[w] = gameStates[w]
                         /\ heap'[gameStates'[w]] = heap[gameStates[w]]
                    ELSE heap'[gameStates'[w]].phase = "betting"]_vars

\* C11: an account's roundNumber never decreases: whenever the account has a
\* round before and after a step, the roundNumber after the step is at least
\* the roundNumber before it.
C11_RoundNumberMonotone ==
    [][\A w \in Accounts :
          (gameStates[w] # NoObj /\ gameStates'[w] # NoObj)
              => heap'[gameStates'[w]].roundNumber
                    >= heap[gameStates[w]].roundNumber]_vars

\* a step in which handler p calls endSpin
EndSpinCall(p) == pc[p] = "spin_end" /\ pc'[p] # pc[p]

\* the spin handlers of account w whose endSpin succeeded and whose house
\* entry is still to come
Settling(pcs, reqs, w) ==
    {p \in Procs : reqs[p].walletAddress = w /\ pcs[p] \in {"spin_settle", "spin_house"}}

\* C12: each round is settled at most once.  An endSpin call outside phase
\* spinning fails and changes no round, no stats and no ledger; a successful
\* one moves the round to result and counts one round in the stats; no round
\* sees a second successful endSpin; every successful endSpin is followed by
\* exactly one house entry, and the handler credits its payout in one step.
C12_SettledOnce ==
    [][/\ \A w \in Accounts :
            /\ endSpins'[w] <= 1
            /\ settled'[w] + Cardinality(Settling(pc', req', w))
                  = playerStats'[w].totalRounds
       /\ \A p \in Procs :
            EndSpinCall(p) =>
                LET w == W(p)
                    o == gameStates[w]
                IN IF o = NoObj \/ heap[o].phase # "spinning"
                   THEN /\ pc'[p] = "idle"
                        /\ gameStates' = gameStates
                        /\ \A a \in Accounts :
                              gameStates[a] # NoObj
                                  => heap'[gameStates[a]] = heap[gameStates[a]]
                        /\ UNCHANGED <<playerStats, balances, houseStats, houseTx>>
                   ELSE /\ heap'[o].phase = "result"
                        /\ endSpins[w] = 0
                        /\ playerStats'[w].totalRounds = playerStats[w].totalRounds + 1
                        /\ UNCHANGED <<balances, houseStats, houseTx>>
       /\ \A p \in Procs :
            (req[p].op = "spin" /\ pc'[p] # pc[p] /\ balances' # balances)
                => /\ pc[p] = "spin_settle" /\ pc'[p] = "spin_house"
                   /\ balances'[W(p)].balance
                         = balances[W(p)].balance + loc[p].totalWinnings]_vars

\* C12 witness: two spin requests for one account raced; the round was
\* settled by one of them while the other is still in progress.
C12_Witness ==
    \E p \in Procs, q \in Procs :
        /\ p # q /\ req[p].op = "spin" /\ req[q].op = "spin" /\ W(p) = W(q)
        /\ pc[p] \in {"spin_settle", "spin_house", "spin_newbal"}
        /\ endSpins[W(p)] = 1
        /\ Round(W(p)).phase = "result"
        /\ playerStats[W(p)].totalRounds = 1
        /\ pc[q] = "spin_check"
        /\ loc[q].gs = loc[p].ro

\* a step in which handler p's call of placeBet succeeds
PlaceBetCall(p) == pc[p] = "bet_place" /\ pc'[p] = "bet_deduct"

SameKey(b1, b2) == b1.type = b2.type /\ b1.value = b2.value

\* C13: the pending set of every round holds at most one bet per (type,
\* value); a placeBet whose (type, value) is already pending adds the amount
\* to that entry, leaves every other entry and the number of entries as they
\* were, and raises totalBetAmount by exactly the amount.
C13_DedupMerge ==
    [][/\ \A o \in ObjIds :
            \A i \in 1..Len(heap'[o].bets), j \in 1..Len(heap'[o].bets) :
                SameKey(heap'[o].bets[i], heap'[o].bets[j]) => i = j
       /\ \A p \in Procs :
            PlaceBetCall(p) =>
                LET o == gameStates[W(p)]
                    old == heap[o].bets
                    new == heap'[o].bets
                IN \A i \in 1..Len(old) :
                       SameKey(old[i], req[p].bet)
                           => /\ Len(new) = Len(old)
                              /\ new[i].amount = old[i].amount + req[p].amount
                              /\ \A j \in 1..Len(old) : j # i => new[j] = old[j]
                              /\ heap'[o].totalBetAmount
                                    = heap[o].totalBetAmount + req[p].amount]_vars

\* C13 witness: a bet has been placed twice in one round and the pending set
\* holds one entry for it with the summed amount.
C13_Witness ==
    \E p \in Procs :
        /\ pc[p] = "bet_deduct"
        /\ \E i \in 1..Len(heap[loc[p].ro].bets) :
              /\ SameKey(heap[loc[p].ro].bets[i], req[p].bet)
              /\ heap[loc[p].ro].bets[i].amount = 2 * req[p].amount
        /\ Len(heap[loc[p].ro].bets) = 1

\* the rounds and the ledgers are as they were
NothingChanged ==
    /\ gameStates' = gameStates
    /\ \A a \in Accounts :
          gameStates[a] # NoObj => heap'[gameStates[a]] = heap[gameStates[a]]
    /\ UNCHANGED <<playerStats, balances, houseStats, houseTx>>

\* C14: a place-bet request whose account has no round, or whose round is
\* not in phase betting, fails without changing the pending bets,
\* totalBetAmount or the balance: both when the handler's own phase check
\* sees it and when the round leaves betting between that check and the call
\* of placeBet, in which case placeBet throws and no debit follows.
C14_BetOutsideBetting ==
    [][\A p \in Procs :
          LET w == W(p)
              noBetting == gameStates[w] = NoObj
                             \/ heap[gameStates[w]].phase # "betting"
          IN /\ (pc[p] = "bet_check" /\ pc'[p] # pc[p]
                   /\ (loc[p].gs = NoObj \/ heap[loc[p].gs].phase # "betting"))
                   => pc'[p] = "idle" /\ NothingChanged
             /\ (pc[p] = "bet_place" /\ pc'[p] # pc[p] /\ noBetting)
                   => pc'[p] = "idle" /\ NothingChanged]_vars

\* C14 witness: a place-bet handler has passed its phase and balance checks
\* and is about to call placeBet, and a spin handler has meanwhile moved the
\* round to spinning.
C14_Witness ==
    \E p \in Procs, q \in Procs :
        /\ pc[p] = "bet_place" /\ loc[p].balance >= req[p].amount
        /\ pc[q] = "spin_end" /\ W(q) = W(p)
        /\ loc[p].gs = gameStates[W(p)]
        /\ Round(W(p)).phase = "spinning"

\* a step in which handler p runs its checks and, if they pass, calls startSpin
StartSpinCall(p) == pc[p] = "spin_check" /\ pc'[p] # pc[p]

\* C15: startSpin on a round in phase betting without pending bets fails
\* with the no-bets error, and without a round or outside phase betting with
\* the phase error; a failed spin request leaves every round (phase and
\* bets) and every ledger as it was; a round becomes spinning only from
\* betting with at least one pending bet, so no spinning round is without
\* bets.
C15_SpinNeedsBets ==
    [][/\ \A o \in ObjIds : heap'[o].phase = "spinning" => heap'[o].bets # <<>>
       /\ \A p \in Procs :
            StartSpinCall(p) =>
                LET w == W(p)
                    o == gameStates[w]
                    err == startSpinError(gameStates, heap, w)
                IN /\ (o # NoObj /\ heap[o].phase = "betting" /\ heap[o].bets = <<>>)
                        => err = "No bets placed"
                   /\ (o = NoObj \/ heap[o].phase # "betting")
                        => err = "Cannot start spin in current game phase"
                   /\ err # "none" => pc'[p] = "idle" /\ NothingChanged
                   /\ pc'[p] = "spin_end"
                        => /\ heap[o].phase = "betting" /\ heap[o].bets # <<>>
                           /\ heap'[o] = [heap[o] EXCEPT !.phase = "spinning"]
                           /\ UNCHANGED <<playerStats, balances, houseStats, houseTx>>]_vars

\* C15 witness: a spin handler read a round with pending bets, the account
\* was then given a fresh round, and the handler is about to call startSpin
\* on that round, which has no bets.
C15_Witness ==
    \E p \in Procs :
        /\ pc[p] = "spin_check"
        /\ loc[p].gs # NoObj /\ loc[p].gs # gameStates[W(p)]
        /\ heap[loc[p].gs].phase = "betting" /\ heap[loc[p].gs].bets # <<>>
        /\ HasRound(W(p))
        /\ Round(W(p)).phase = "betting" /\ Round(W(p)).bets = <<>>

\* a step in which a new-round request for account w arrives and calls
\* startNewRound
NewRoundCall(p, w) ==
    pc[p] = "idle" /\ pc'[p] = "nr_state" /\ req'[p].walletAddress = w

\* C16: startNewRound on a round in phase result puts the same round object
\* into phase betting with no bets, totalBetAmount 0, lastWinnings 0, no
\* winning number and roundNumber one higher, and neither that call nor any
\* later step of the new-round handler changes the player's balance or the
\* house ledger.
C16_NewRoundResets ==
    [][\A p \in Procs :
          /\ \A w \in Accounts :
                (NewRoundCall(p, w) /\ HasRound(w) /\ Round(w).phase = "result")
                    => /\ gameStates'[w] = gameStates[w]
                       /\ heap'[gameStates[w]].phase = "betting"
                       /\ heap'[gameStates[w]].bets = <<>>
                       /\ heap'[gameStates[w]].totalBetAmount = 0
                       /\ heap'[gameStates[w]].lastWinnings = 0
                       /\ heap'[gameStates[w]].winningNumber = NoNumber
                       /\ heap'[gameStates[w]].roundNumber = Round(w).roundNumber + 1
                       /\ UNCHANGED <<balances, houseStats, houseTx>>
          /\ (req[p].op = "newround" /\ pc'[p] # pc[p])
                => /\ UNCHANGED <<houseStats, houseTx>>
                   /\ balances[W(p)].present => balances' = balances]_vars

\* C16 witness: a round was settled by a spin handler that has only its
\* response left to send, and a new-round request has since reset that
\* round to the next roundNumber.
C16_Witness ==
    \E p \in Procs, q \in Procs :
        /\ req[p].op = "newround" /\ pc[p] = "nr_state"
        /\ req[q].op = "spin" /\ pc[q] = "spin_resp" /\ W(q) = W(p)
        /\ loc[q].ro = gameStates[W(p)]
        /\ Round(W(p)).roundNumber = loc[q].rn + 1
        /\ Round(W(p)).phase = "betting" /\ Round(W(p)).bets = <<>>

(***************************************************************************)
(* A sequential client: every request is sent after the response to the    *)
(* previous one                                                            *)
(***************************************************************************)
\* the arrivals of a sequential client's requests
SeqInitialize(p, w) == AllIdle /\ InitializeGame(p, w)

SeqBet(p, w, bet) == AllIdle /\ BetGetState(p, w, bet)

SeqClear(p, w) == AllIdle /\ ClearGetState(p, w)

SeqSpin(p, w) == AllIdle /\ SpinGetState(p, w)

SeqNewRound(p, w) == AllIdle /\ NewRoundStart(p, w)

SeqWithdraw(p, w, amount) == AllIdle /\ WithdrawGetBalance(p, w, amount)

NextSeq ==
    \/ \E p \in Procs, w \in Accounts : SeqInitialize(p, w)
    \/ \E p \in Procs : InitializeBalance(p)
    \/ \E p \in Procs : InitializeRespond(p)
    \/ \E p \in Procs, w \in Accounts, bet \in SeqBetChoices : SeqBet(p, w, bet)
    \/ \E p \in Procs : BetCheckPhase(p)
    \/ \E p \in Procs : BetPlace(p)
    \/ \E p \in Procs : BetDeduct(p)
    \/ \E p \in Procs : BetNewBalance(p)
    \/ \E p \in Procs : BetRespond(p)
    \/ \E p \in Procs, w \in Accounts : SeqClear(p, w)
    \/ \E p \in Procs : ClearRefund(p)
    \/ \E p \in Procs : ClearClear(p)
    \/ \E p \in Procs : ClearNewBalance(p)
    \/ \E p \in Procs : ClearRespond(p)
    \/ \E p \in Procs, w \in Accounts : SeqSpin(p, w)
    \/ \E p \in Procs : SpinStart(p)
    \/ \E p \in Procs : SpinEnd(p)
    \/ \E p \in Procs : SpinSettle(p)
    \/ \E p \in Procs : SpinHouse(p)
    \/ \E p \in Procs : SpinNewBalance(p)
    \/ \E p \in Procs : SpinRespond(p)
    \/ \E p \in Procs, w \in Accounts : SeqNewRound(p, w)
    \/ \E p \in Procs : NewRoundGetState(p)
    \/ \E p \in Procs : NewRoundBalance(p)
    \/ \E p \in Procs : NewRoundRespond(p)
    \/ \E p \in Procs, w \in Accounts, amount \in AmountChoices : SeqWithdraw(p, w, amount)
    \/ \E p \in Procs : WithdrawDeduct(p)
    \/ \E p \in Procs : WithdrawNewBalance(p)
    \/ \E p \in Procs : WithdrawRespond(p)

SpecSeq == Init /\ [][NextSeq]_vars

\* the payout of a round: over the winning bets, amount * (payout + 1)
PayoutOf(bets, slot) ==
    SetSum([i \in 1..Len(bets) |->
               IF isBetWinning(bets[i], slot)
               THEN bets[i].amount * (bets[i].payout + 1) ELSE 0],
           1..Len(bets))

\* C17: for sequential requests, when a spin settles a round the round's
\* stake has been debited from the balance (the balance is the balance
\* before the round's bets minus totalBetAmount); the payout is the sum over
\* the winning bets of amount * (payout + 1); the spin handler adds exactly
\* that payout to the balance and reports the resulting balance.
C17_SequentialPayout ==
    [][\A p \in Procs :
          LET w == W(p)
              o == gameStates[w]
          IN /\ (pc[p] = "spin_end" /\ pc'[p] # pc[p])
                  => /\ pc'[p] = "spin_settle"
                     /\ heap[o].totalBetAmount = escrowed[w]
                     /\ loc'[p].totalWinnings
                           = PayoutOf(heap[o].bets, loc'[p].winningNumber)
                     /\ heap'[o].lastWinnings = loc'[p].totalWinnings
                     /\ balances' = balances
             /\ (pc[p] = "spin_settle" /\ pc'[p] # pc[p])
                  => balances'[w].balance = balances[w].balance + loc[p].totalWinnings
             /\ (pc[p] \in {"spin_house", "spin_newbal", "spin_resp"} /\ pc'[p] # pc[p])
                  => balances' = balances
             /\ pc'[p] = "spin_resp" => loc'[p].newBalance = balances'[w].balance]_vars

\* C17 witness: a new account bet 100 on number 17 at 35, the wheel stopped
\* at 17, and the spin handler reports the payout 3600 and the balance 4500.
C17_Witness ==
    \E p \in Procs :
        /\ pc[p] = "spin_resp"
        /\ heap[loc[p].ro].bets = <<Bet("number", NumV(17), 100, 35)>>
        /\ loc[p].winningNumber = 17
        /\ loc[p].totalWinnings = 3600
        /\ loc[p].newBalance = 4500
        /\ balances[W(p)].totalSpent = 100

(***************************************************************************)
(* The payout rules on their own: isBetWinning applied to a bet and a slot *)
(***************************************************************************)
\* bets of every type the schema accepts, with values of both kinds
RuleBets ==
    {Bet("number", NumV(n), 1, 35) : n \in 0..(NumSlots - 1)}
        \cup {Bet("number", StrV("17"), 1, 35)}
        \cup {Bet("color", StrV(c), 1, 1) : c \in {"red", "black", "green"}}
        \cup {Bet("odds_evens", StrV(c), 1, 1) : c \in {"odd", "even"}}
        \cup {Bet("dozen", NumV(n), 1, 2) : n \in 0..4}
        \cup {Bet("dozen", StrV("1"), 1, 2)}
        \cup {Bet("column", NumV(1), 1, 2), Bet("high_low", StrV("high"), 1, 1)}

InitRules ==
    /\ gameStates = [a \in Accounts |-> NoObj]
    /\ heap = [o \in ObjIds |-> FreeObj]
    /\ playerStats = [a \in Accounts |-> NoStats]
    /\ balances = [a \in Accounts |-> NoBalance]
    /\ houseStats = [totalCollected |-> 0, totalPaidOut |-> 0, profit |-> 0,
                     transactionCount |-> 0]
    /\ houseTx = <<>>
    /\ pc = [p \in Procs |-> "idle"]
    /\ req = [p \in Procs |-> NoReq]
    /\ loc = [p \in Procs |-> NoLoc]
    /\ ret \in {[op |-> "input", bet |-> bet, winningNumber |-> n, result |-> FALSE] :
                    bet \in RuleBets, n \in 0..(NumSlots - 1)}
    /\ nreq = [total |-> 0, other |-> 0]
    /\ escrowed = [a \in Accounts |-> 0]
    /\ refunded = [a \in Accounts |-> 0]
    /\ cleared = [a \in Accounts |-> 0]
    /\ settled = [a \in Accounts |-> 0]
    /\ endSpins = [a \in Accounts |-> 0]
    /\ withdrawn = 0
    /\ clock = [now |-> 0, lastActivity |-> [a \in Accounts |-> 0]]

\* the call isBetWinning(bet, winningNumber)
ApplyRule ==
    /\ ret.op = "input"
    /\ ret' = [ret EXCEPT !.op = "isBetWinning",
                          !.result = isBetWinning(ret.bet, ret.winningNumber)]
    /\ UNCHANGED <<gameStates, heap, playerStats, balances, houseStats, houseTx,
                   pc, req, loc, nreq, hist>>

SpecRules == InitRules /\ [][ApplyRule]_vars

\* the colors of a European wheel
WheelRed == {1, 3, 5, 7, 9, 12, 14, 16, 18, 19, 21, 23, 25, 27, 30, 32, 34, 36}

WheelColor(slot) ==
    IF slot = 0 THEN "green" ELSE IF slot \in WheelRed THEN "red" ELSE "black"

Parity(slot) == IF slot % 2 = 1 THEN "odd" ELSE "even"

\* ceil(slot / 12)
DozenOf(slot) == CHOOSE k \in 0..4 : 12 * (k - 1) < slot /\ slot <= 12 * k

\* C18: for every slot of 0..36 isBetWinning answers by the payout rules: a
\* number bet wins iff its value is the slot; a color bet iff the slot is
\* not 0 and has the bet's color; an odds_evens bet iff the slot is not 0
\* and has the bet's parity; a dozen bet iff the slot is not 0 and
\* ceil(slot / 12) is the bet's value; on slot 0 only a number bet on 0 wins.
C18_PayoutRules ==
    ret.op = "isBetWinning" =>
        LET bet == ret.bet
            slot == ret.winningNumber
            won == ret.result
        IN /\ bet.type = "number" => (won <=> bet.value = NumV(slot))
           /\ bet.type = "color"
                => (won <=> (slot # 0 /\ bet.value = StrV(WheelColor(slot))))
           /\ bet.type = "odds_evens"
                => (won <=> (slot # 0 /\ bet.value = StrV(Parity(slot))))
           /\ bet.type = "dozen"
                => (won <=> (slot # 0 /\ bet.value = NumV(DozenOf(slot))))
           /\ slot = 0 => (won <=> (bet.type = "number" /\ bet.value = NumV(0)))

\* C18 witness: isBetWinning has answered for a bet on even against slot 0.
C18_Witness ==
    /\ ret.op = "isBetWinning"
    /\ ret.bet.type = "odds_evens" /\ ret.bet.value = StrV("even")
    /\ ret.winningNumber = 0
    /\ ret.result = FALSE

\* C19: house bookkeeping for sequential settlements.  profit is
\* totalCollected - totalPaidOut after every step; a settlement with payout
\* 0 adds the round's stake to totalCollected; a settlement with payout > 0
\* adds payout - stake to totalPaidOut; either way the settlement adds stake
\* - payout to profit, and no other step changes the house ledger, so profit
\* is the sum of stake - payout over the settled rounds.
C19_HouseBookkeeping ==
    [][/\ houseStats'.profit = houseStats'.totalCollected - houseStats'.totalPaidOut
       /\ \A p \in Procs :
            LET stake == heap[loc[p].ro].totalBetAmount
                payout == loc[p].totalWinnings
            IN /\ (pc[p] = "spin_settle" /\ pc'[p] # pc[p] /\ payout = 0)
                    => /\ houseStats'.totalCollected = houseStats.totalCollected + stake
                       /\ houseStats'.totalPaidOut = houseStats.totalPaidOut
                       /\ houseStats'.profit = houseStats.profit + (stake - payout)
                       /\ houseTx' = Append(houseTx, HouseTx("collection", stake))
               /\ (pc[p] = "spin_settle" /\ pc'[p] # pc[p] /\ payout > 0)
                    => /\ pc'[p] = "spin_house"
                       /\ UNCHANGED <<houseStats, houseTx>>
               /\ (pc[p] = "spin_house" /\ pc'[p] # pc[p])
                    => /\ payout > 0
                       /\ houseStats'.totalPaidOut
                             = houseStats.totalPaidOut + (payout - stake)
                       /\ houseStats'.totalCollected = houseStats.totalCollected
                       /\ houseStats'.profit = houseStats.profit + (stake - payout)
                       /\ houseTx' = Append(houseTx, HouseTx("payout", payout - stake))
       /\ (\A p \in Procs : ~(pc[p] \in {"spin_settle", "spin_house"} /\ pc'[p] # pc[p]))
            => UNCHANGED <<houseStats, houseTx>>]_vars

\* C19 witness: a new account bet 50 on red at 1, the wheel stopped at 0,
\* the handler reports the balance 950 and the house has collected 50.
C19_Witness ==
    \E p \in Procs :
        /\ pc[p] = "spin_resp"
        /\ heap[loc[p].ro].bets = <<Bet("color", StrV("red"), 50, 1)>>
        /\ loc[p].winningNumber = 0
        /\ loc[p].totalWinnings = 0
        /\ loc[p].newBalance = 950
        /\ houseStats = [totalCollected |-> 50, totalPaidOut |-> 0, profit |-> 50,
                         transactionCount |-> 1]

\* the sum of the amounts of the pending bets
PendingSum(bets) == SetSum([i \in 1..Len(bets) |-> bets[i].amount], 1..Len(bets))

\* C20: in every state, totalBetAmount of every round object equals the sum
\* of the amounts of the bets in its bets array.
C20_PendingTotal ==
    \A o \in ObjIds : heap[o].totalBetAmount = PendingSum(heap[o].bets)

\* C20 witness: a round holds a bet that was placed twice (merged) and a
\* second bet.
C20_Witness ==
    \E w \in Accounts :
        /\ HasRound(w)
        /\ Len(Round(w).bets) = 2
        /\ \E i \in 1..2 : Round(w).bets[i].amount = 800
        /\ Round(w).totalBetAmount = 1500

(***************************************************************************)
(* One player at the table: the first account has completed POST            *)
(* /initialize, and its client sends initialize, bet and spin requests      *)
(* without waiting for the responses                                        *)
(***************************************************************************)
InitPlaying ==
    /\ gameStates = [a \in Accounts |-> IF a = FirstAccount THEN 1 ELSE NoObj]
    /\ heap = [o \in ObjIds |-> IF o = 1 THEN NewGame ELSE FreeObj]
    /\ playerStats = [a \in Accounts |-> NoStats]
    /\ balances = getOrCreateBalance([a \in Accounts |-> NoBalance], FirstAccount)
    /\ houseStats = [totalCollected |-> 0, totalPaidOut |-> 0, profit |-> 0,
                     transactionCount |-> 0]
    /\ houseTx = <<>>
    /\ pc = [p \in Procs |-> "idle"]
    /\ req = [p \in Procs |-> NoReq]
    /\ loc = [p \in Procs |-> NoLoc]
    /\ ret = NoRet
    /\ nreq = [total |-> 0, other |-> 0]
    /\ escrowed = [a \in Accounts |-> 0]
    /\ refunded = [a \in Accounts |-> 0]
    /\ cleared = [a \in Accounts |-> 0]
    /\ settled = [a \in Accounts |-> 0]
    /\ endSpins = [a \in Accounts |-> 0]
    /\ withdrawn = 0
    /\ clock = [now |-> 0, lastActivity |-> [a \in Accounts |-> 0]]

NextPlaying ==
    \/ \E p \in Procs : InitializeGame(p, FirstAccount)
    \/ \E p \in Procs : InitializeBalance(p)
    \/ \E p \in Procs : InitializeRespond(p)
    \/ \E p \in Procs, bet \in SeqBetChoices : BetGetState(p, FirstAccount, bet)
    \/ \E p \in Procs : BetCheckPhase(p)
    \/ \E p \in Procs : BetPlace(p)
    \/ \E p \in Procs : BetDeduct(p)
    \/ \E p \in Procs : BetNewBalance(p)
    \/ \E p \in Procs : BetRespond(p)
    \/ \E p \in Procs : SpinGetState(p, FirstAccount)
    \/ \E p \in Procs : SpinStart(p)
    \/ \E p \in Procs : SpinEnd(p)
    \/ \E p \in Procs : SpinSettle(p)
    \/ \E p \in Procs : SpinHouse(p)
    \/ \E p \in Procs : SpinNewBalance(p)
    \/ \E p \in Procs : SpinRespond(p)

SpecPlaying == InitPlaying /\ [][NextPlaying]_vars

\* the bets of a round that win against slot, in their order
WinnersOf(bets, slot) == SelectSeq(bets, LAMBDA b : isBetWinning(b, slot))

\* C21: a round in phase result has a winningNumber in 0..36, its
\* winningBets are those of its bets that win against winningNumber and its
\* lastWinnings is the sum of amount * (payout + 1) over them; a round in
\* phase betting has no winningNumber and lastWinnings 0.
C21_ResultConsistent ==
    \A w \in Accounts :
        HasRound(w) =>
            /\ Round(w).phase = "result"
                 => /\ Round(w).winningNumber \in 0..(NumSlots - 1)
                    /\ Round(w).winningBets
                          = WinnersOf(Round(w).bets, Round(w).winningNumber)
                    /\ Round(w).lastWinnings
                          = PayoutOf(Round(w).bets, Round(w).winningNumber)
            /\ Round(w).phase = "betting"
                 => /\ Round(w).winningNumber = NoNumber
                    /\ Round(w).lastWinnings = 0

(***************************************************************************)
(* The player ledger on its own: direct calls of the TokenServiceClass     *)
(* methods                                                                 *)
(***************************************************************************)
Called(op, w, amount, result) ==
    [op |-> op, fromWallet |-> w, toWallet |-> "", amount |-> amount, result |-> result]

CallGetPlayerBalance(w) ==
    /\ Admit({w})
    /\ LET r == getPlayerBalance(balances, w)
       IN /\ balances' = r.bals
          /\ ret' = Called("getPlayerBalance", w, 0, r.result)
    /\ UNCHANGED <<gameStates, heap, playerStats, houseStats, houseTx, pc, req, loc, hist>>

CallAddBalance(w, amount) ==
    /\ Admit({w})
    /\ balances' = addBalance(balances, w, amount, "Game winnings")
    /\ ret' = Called("addBalance", w, amount, TRUE)
    /\ UNCHANGED <<gameStates, heap, playerStats, houseStats, houseTx, pc, req, loc, hist>>

CallDeductBalance(w, amount) ==
    /\ Admit({w})
    /\ LET r == deductBalance(balances, w, amount, "Game bet")
       IN /\ balances' = r.bals
          /\ ret' = Called("deductBalance", w, amount, r.result)
    /\ UNCHANGED <<gameStates, heap, playerStats, houseStats, houseTx, pc, req, loc, hist>>

NextLedger ==
    \/ \E w \in Accounts : CallGetPlayerBalance(w)
    \/ \E w \in Accounts, amount \in LedgerAmounts : CallAddBalance(w, amount)
    \/ \E w \in Accounts, amount \in LedgerAmounts : CallDeductBalance(w, amount)
    \/ \E fromWallet \in Accounts, toWallet \in Accounts, amount \in LedgerAmounts :
          Transfer(fromWallet, toWallet, amount)

SpecLedger == Init /\ [][NextLedger]_vars

\* a step that is a direct call of the ledger method op
LedgerCall(op) == nreq'.total = nreq.total + 1 /\ ret'.op = op

\* the balance a read of the account returns (an account is created with the
\* starting grant by the first call that names it)
BalanceOf(bals, w) == IF bals[w].present THEN bals[w].balance ELSE StartingBalance

CountTx(txs, type) == Cardinality({i \in 1..Len(txs) : txs[i].type = type})

CallEarn ==
    /\ nreq.total < MaxPlayerTx + LogExtra
    /\ nreq' = [nreq EXCEPT !.total = @ + 1]
    /\ balances' = addBalance(balances, FirstAccount, nreq.total + 1, "Game winnings")
    /\ UNCHANGED <<gameStates, heap, playerStats, houseStats, houseTx, pc, req, loc,
                   ret, hist>>

HouseTurn(parity) ==
    /\ nreq.total = MaxPlayerTx + LogExtra
    /\ houseStats.transactionCount < MaxHouseTx + LogExtra
    /\ houseStats.transactionCount % 2 = parity

CallAddFunds ==
    /\ HouseTurn(0)
    /\ houseStats' = addFunds(houseStats, houseStats.transactionCount + 1)
    /\ houseTx' = addFundsTx(houseTx, houseStats.transactionCount + 1)
    /\ UNCHANGED <<gameStates, heap, playerStats, balances, pc, req, loc, ret, nreq, hist>>

CallDeductFunds ==
    /\ HouseTurn(1)
    /\ houseStats' = deductFunds(houseStats, houseStats.transactionCount + 1)
    /\ houseTx' = deductFundsTx(houseTx, houseStats.transactionCount + 1)
    /\ UNCHANGED <<gameStates, heap, playerStats, balances, pc, req, loc, ret, nreq, hist>>

NextLogs == CallEarn \/ CallAddFunds \/ CallDeductFunds

SpecLogs == Init /\ [][NextLogs]_vars

Min(x, y) == IF x < y THEN x ELSE y

\* the j-th entry ever appended to the first account's log, and to the
\* house log
PlayerEntry(j) ==
    IF j = 1 THEN Tx("deposit", StartingBalance, "Welcome bonus")
    ELSE Tx("earn", j - 1, "Game winnings")

HouseEntry(j) == HouseTx(IF j % 2 = 1 THEN "collection" ELSE "payout", j)

\* C24: a player's transaction log never has more than 100 entries and the
\* house log never more than 1000, and each log is the most recent entries
\* in the order they were appended: an append beyond the bound drops the
\* oldest entry.
C24_LogsBoundedFifo ==
    LET txs == balances[FirstAccount].transactions
        appended == IF nreq.total = 0 THEN 0 ELSE nreq.total + 1
        count == houseStats.transactionCount
    IN /\ Len(txs) <= 100
       /\ Len(txs) = Min(appended, 100)
       /\ \A i \in 1..Len(txs) : txs[i] = PlayerEntry(appended - Len(txs) + i)
       /\ Len(houseTx) <= 1000
       /\ Len(houseTx) = Min(count, 1000)
       /\ \A i \in 1..Len(houseTx) : houseTx[i] = HouseEntry(count - Len(houseTx) + i)

\* C24 witness: both logs have been appended to beyond their bounds.
C24_Witness ==
    /\ nreq.total > 100 /\ Len(balances[FirstAccount].transactions) = 100
    /\ balances[FirstAccount].transactions[1].type = "earn"
    /\ houseStats.transactionCount > 1000 /\ Len(houseTx) = 1000
    /\ houseTx[1].amount > 1

(***************************************************************************)
(* The eviction sweep (GameStateService.cleanupOldGames) and the passage   *)
(* of time: the round service called directly, each call stamping the      *)
(* round's lastActivity with the time of the call.                         *)
(***************************************************************************)
\* one hour, and the last instant of a run, in ticks of the clock
Horizon == 1
MaxTime == 3
\* how much a round of the sweep run stakes, how many rounds an account
\* settles, and how far its round number goes
SweepStake == 100
SweepRounds == 2
SweepRoundNumber == 2

\* gameState.lastActivity = new Date()
Touch(w) == clock' = [clock EXCEPT !.lastActivity[w] = clock.now]

Tick ==
    /\ clock.now < MaxTime
    /\ clock' = [clock EXCEPT !.now = @ + 1]
    /\ UNCHANGED <<gameStates, heap, playerStats, balances, houseStats, houseTx, pc, req,
                   loc, ret, nreq, escrowed, refunded, cleared, settled, endSpins,
                   withdrawn>>

\* a sweep that forgets to look at the phase
cleanupOldGamesAnyPhase(gs, h, ck) ==
    [w \in Accounts |->
        IF gs[w] # NoObj /\ ck.lastActivity[w] < ck.now - Horizon
        THEN NoObj ELSE gs[w]]

\* the map after cleanupOldGames
cleanupOldGames(gs, h, ck) ==
    [w \in Accounts |->
        IF gs[w] # NoObj /\ ck.lastActivity[w] < ck.now - Horizon
                         /\ h[gs[w]].phase = "result"
        THEN NoObj ELSE gs[w]]

\* the interval timer fires
Sweep ==
    /\ UNCHANGED <<playerStats, balances, houseStats, houseTx, pc, req, loc, ret, nreq,
                   hist>>
    /\ StoreMap(cleanupOldGames(gameStates, heap, clock), heap)

SweepFrame == <<balances, houseStats, houseTx, pc, req, loc, ret, nreq, escrowed,
                refunded, cleared, settled, withdrawn>>

SweepInitialize(w) ==
    /\ Touch(w)
    /\ UNCHANGED <<playerStats, endSpins, SweepFrame>>
    /\ LET g == initializeGame(gameStates, heap, w)
       IN StoreMap(g.gameStates, g.heap)

SweepGetState(w) ==
    /\ gameStates[w] # NoObj
    /\ Touch(w)
    /\ UNCHANGED <<gameStates, heap, playerStats, endSpins, SweepFrame>>

SweepPlaceBet(w, bet) ==
    /\ ~placeBetThrows(gameStates, heap, w)
    /\ heap[gameStates[w]].totalBetAmount + bet.amount <= SweepStake
    /\ heap' = placeBet(gameStates, heap, w, bet)
    /\ Touch(w)
    /\ UNCHANGED <<gameStates, playerStats, endSpins, SweepFrame>>

SweepStartSpin(w) ==
    /\ ~startSpinThrows(gameStates, heap, w)
    /\ heap' = startSpin(gameStates, heap, w)
    /\ Touch(w)
    /\ UNCHANGED <<gameStates, playerStats, endSpins, SweepFrame>>

SweepEndSpin(w, winningNumber) ==
    /\ ~endSpinThrows(gameStates, heap, w)
    /\ playerStats[w].totalRounds < SweepRounds
    /\ LET calc == calculateWinnings(heap[gameStates[w]].bets, winningNumber)
           h == endSpin(gameStates, heap, w, winningNumber, calc.winningBets,
                        calc.totalWinnings)
       IN /\ heap' = h
          /\ playerStats' = updatePlayerStats(playerStats, w, h[gameStates[w]],
                                              calc.totalWinnings)
    /\ endSpins' = [endSpins EXCEPT ![w] = @ + 1]
    /\ Touch(w)
    /\ UNCHANGED <<gameStates, SweepFrame>>

SweepNewRound(w) ==
    /\ gameStates[w] # NoObj
    /\ heap[gameStates[w]].roundNumber < SweepRoundNumber
    /\ heap' = startNewRound(gameStates, heap, w)
    /\ Touch(w)
    /\ UNCHANGED <<gameStates, playerStats, endSpins, SweepFrame>>

NextSweep ==
    \/ Tick
    \/ Sweep
    \/ SweepInitialize(FirstAccount)
    \/ SweepGetState(FirstAccount)
    \/ \E bet \in SeqBetChoices : SweepPlaceBet(FirstAccount, bet)
    \/ SweepStartSpin(FirstAccount)
    \/ \E n \in generateSecureRandomNumber : SweepEndSpin(FirstAccount, n)
    \/ SweepNewRound(FirstAccount)

SpecSweep == Init /\ [][NextSweep]_vars

\* the sweep removes the round of w
Evicts(w) == gameStates[w] # NoObj /\ gameStates'[w] = NoObj

\* C25: the eviction sweep removes a round only if its phase is result and
\* its lastActivity is more than one hour old; it removes no round in phase
\* betting or spinning, it leaves every round it keeps as it is, and it
\* changes no player balance, no PlayerStats and no house ledger value.
C25_SweepOnlyStaleResults ==
    [][Sweep =>
        /\ \A w \in Accounts :
             /\ Evicts(w) => /\ heap[gameStates[w]].phase = "result"
                             /\ clock.now - clock.lastActivity[w] > Horizon
             /\ gameStates[w] # NoObj =>
                  /\ heap[gameStates[w]].phase \in {"betting", "spinning"} => ~Evicts(w)
                  /\ ~Evicts(w) => /\ gameStates'[w] = gameStates[w]
                                   /\ heap'[gameStates[w]] = heap[gameStates[w]]
             /\ gameStates[w] = NoObj => gameStates'[w] = NoObj
        /\ UNCHANGED <<balances, playerStats, houseStats, houseTx>>]_vars

\* C25 witness: a sweep is about to remove the round of an account that has
\* stats: the round is in phase result, was settled with a winning bet and
\* was last touched more than one hour ago.
C25_Witness ==
    LET w == FirstAccount
    IN /\ gameStates[w] # NoObj
       /\ heap[gameStates[w]].phase = "result"
       /\ heap[gameStates[w]].lastWinnings > 0
       /\ clock.lastActivity[w] > 0
       /\ clock.lastActivity[w] < clock.now - Horizon
       /\ playerStats[w].present

(***************************************************************************)
(* Player statistics                                                        *)
(***************************************************************************)
\* handler p's endSpin call succeeds: the round of its account is settled
SettlesRound(p) == EndSpinCall(p) /\ pc'[p] = "spin_settle"

\* C26: PlayerStats.totalWinnings is the player's net result: every
\* settlement adds the round's payout minus the round's stake to it, also
\* when some bets win and the payout does not exceed the stake.
C26_NetResult ==
    [][\A p \in Procs :
          SettlesRound(p) =>
              LET w == W(p)
                  round == heap'[gameStates[w]]
              IN playerStats'[w].totalWinnings
                    = playerStats[w].totalWinnings
                        + (round.lastWinnings - round.totalBetAmount)]_vars

\* A run of settled rounds of the first account, the round service called
\* directly: each round stakes number bets of 10, at most one of them on 17
\* and the others on numbers the account has not bet on before.
StatsRounds == 3
StatsStake == 50

\* the numbers of the number bets of a round, in the order of the bets
RECURSIVE NumberValues(_)
NumberValues(bets) ==
    IF bets = <<>> THEN <<>>
    ELSE IF Head(bets).type = "number" /\ Head(bets).value.k = "num"
         THEN <<Head(bets).value.n>> \o NumberValues(Tail(bets))
         ELSE NumberValues(Tail(bets))

Range(s) == {s[i] : i \in 1..Len(s)}

\* the smallest number of the wheel, other than 0, that the account has no
\* bet on yet
FreshNumber ==
    LET known == Range(playerStats[FirstAccount].favoriteNumbers)
                    \cup Range(NumberValues(Round(FirstAccount).bets)) \cup {0, 17}
    IN CHOOSE n \in 1..(NumSlots - 1) :
          n \notin known /\ \A m \in 1..(n - 1) : m \in known

StatsBetChoices ==
    {Bet("number", NumV(17), 10, 35), Bet("number", NumV(FreshNumber), 10, 35)}

StatsFrame == <<gameStates, balances, houseStats, houseTx, pc, req, loc, ret, nreq,
                escrowed, refunded, cleared, settled, withdrawn, clock>>

StatsPlaceBet(bet) ==
    /\ ~placeBetThrows(gameStates, heap, FirstAccount)
    /\ playerStats[FirstAccount].totalRounds < StatsRounds
    /\ Round(FirstAccount).totalBetAmount + bet.amount <= StatsStake
    /\ existingBetIndex(Round(FirstAccount).bets, bet) = 0
    /\ heap' = placeBet(gameStates, heap, FirstAccount, bet)
    /\ UNCHANGED <<playerStats, endSpins, StatsFrame>>

StatsStartSpin ==
    /\ ~startSpinThrows(gameStates, heap, FirstAccount)
    /\ heap' = startSpin(gameStates, heap, FirstAccount)
    /\ UNCHANGED <<playerStats, endSpins, StatsFrame>>

StatsEndSpin(winningNumber) ==
    /\ ~endSpinThrows(gameStates, heap, FirstAccount)
    /\ LET calc == calculateWinnings(Round(FirstAccount).bets, winningNumber)
           h == endSpin(gameStates, heap, FirstAccount, winningNumber, calc.winningBets,
                        calc.totalWinnings)
       IN /\ heap' = h
          /\ playerStats' = updatePlayerStats(playerStats, FirstAccount,
                                              h[gameStates[FirstAccount]],
                                              calc.totalWinnings)
    /\ endSpins' = [endSpins EXCEPT ![FirstAccount] = @ + 1]
    /\ UNCHANGED StatsFrame

StatsNewRound ==
    /\ Round(FirstAccount).phase = "result"
    /\ heap' = startNewRound(gameStates, heap, FirstAccount)
    /\ endSpins' = [endSpins EXCEPT ![FirstAccount] = 0]
    /\ UNCHANGED <<playerStats, StatsFrame>>

NextStats ==
    \/ \E bet \in StatsBetChoices : StatsPlaceBet(bet)
    \/ StatsStartSpin
    \/ \E n \in generateSecureRandomNumber : StatsEndSpin(n)
    \/ StatsNewRound

SpecStats == InitPlaying /\ [][NextStats]_vars

\* a step that settles the round of w: a successful endSpin
Settles(w) ==
    /\ gameStates[w] # NoObj /\ gameStates'[w] = gameStates[w]
    /\ heap[gameStates[w]].phase = "spinning"
    /\ heap'[gameStates[w]].phase = "result"

\* C27: after every settlement totalRounds = totalWins + totalLosses and
\* winRate = totalWins / totalRounds * 100, and totalRounds counts the
\* account's successful settlements: it is 0 before the first one, every
\* settlement adds one to it, and no other step changes the stats.
C27_StatsCounts ==
    [][\A w \in Accounts :
          /\ ~playerStats[w].present => playerStats[w].totalRounds = 0
          /\ Settles(w) =>
                /\ playerStats'[w].present
                /\ playerStats'[w].totalRounds = playerStats[w].totalRounds + 1
                /\ playerStats'[w].totalRounds
                      = playerStats'[w].totalWins + playerStats'[w].totalLosses
                /\ playerStats'[w].winRate.num * playerStats'[w].totalRounds
                      = playerStats'[w].totalWins * 100 * playerStats'[w].winRate.den
          /\ ~Settles(w) => playerStats'[w] = playerStats[w]]_vars

\* C27 witness: an account with a win and a loss whose third round is about
\* to be settled.
C27_Witness ==
    /\ playerStats[FirstAccount].totalRounds = 2
    /\ playerStats[FirstAccount].totalWins > 0
    /\ playerStats[FirstAccount].totalLosses > 0
    /\ Round(FirstAccount).phase = "spinning"

\* the values of a sequence in first-seen order, each once
RECURSIVE FirstSeen(_)
FirstSeen(s) ==
    IF s = <<>> THEN <<>>
    ELSE LET front == FirstSeen(SubSeq(s, 1, Len(s) - 1))
         IN IF s[Len(s)] \in Range(front) THEN front ELSE Append(front, s[Len(s)])

betTypes == {"number", "color", "odds_evens", "dozen", "column", "high_low"}

\* placeBetSchema.safeParse succeeds: any number or string is a betValue
placeBetSchema(bet) ==
    /\ bet.type \in betTypes
    /\ bet.value.k \in {"num", "str"}
    /\ bet.amount >= 1 /\ bet.amount <= 1000
    /\ bet.payout >= 1

\* the switch of RouletteLogic.validateBet (client library): the value fits
\* the bet type
validateBetValue(bet) ==
    CASE bet.type = "number" ->
            bet.value.k = "num" /\ bet.value.n >= 0 /\ bet.value.n <= 36
      [] bet.type = "color" -> bet.value.k = "str" /\ bet.value.s \in {"red", "black"}
      [] bet.type = "odds_evens" -> bet.value.k = "str" /\ bet.value.s \in {"odd", "even"}
      [] bet.type = "dozen" -> bet.value.k = "num" /\ bet.value.n \in {1, 2, 3}
      [] bet.type = "high_low" -> bet.value.k = "str" /\ bet.value.s \in {"high", "low"}
      [] OTHER -> FALSE

\* malformed bets: an unknown type, a number bet on 99, a dozen bet on 7, an
\* amount of 0
MalformedBetChoices ==
    {Bet("street", NumV(1), 100, 11), Bet("number", NumV(99), 100, 35),
     Bet("dozen", NumV(7), 100, 2), Bet("number", NumV(17), 0, 35)}

\* POST /bet with a body that passes the schema, from a client that sends
\* one request at a time
BetValid(p, w, bet) == AllIdle /\ placeBetSchema(bet) /\ BetGetState(p, w, bet)

\* POST /bet with a body that fails the schema: 400 'Invalid bet data'
BetInvalid(p, w, bet) ==
    /\ ~placeBetSchema(bet)
    /\ AllIdle
    /\ pc[p] = "idle"
    /\ \A q \in Procs : pc[q] = "idle" => p <= q
    /\ Admit({w})
    /\ UNCHANGED <<gameStates, heap, playerStats, balances, houseStats, houseTx, pc, req,
                   loc, ret, hist>>

NextValidate ==
    \/ \E p \in Procs, bet \in SeqBetChoices \cup MalformedBetChoices :
          BetValid(p, FirstAccount, bet)
    \/ \E p \in Procs, bet \in SeqBetChoices \cup MalformedBetChoices :
          BetInvalid(p, FirstAccount, bet)
    \/ \E p \in Procs : BetCheckPhase(p)
    \/ \E p \in Procs : BetPlace(p)
    \/ \E p \in Procs : BetDeduct(p)
    \/ \E p \in Procs : BetNewBalance(p)
    \/ \E p \in Procs : BetRespond(p)

SpecValidate == InitPlaying /\ [][NextValidate]_vars

\* a malformed bet: its type is unknown, its value is out of range for its
\* type (validateBet has no case for column bets, which are left aside), or
\* its amount is not positive
Malformed(bet) ==
    \/ bet.type \notin betTypes
    \/ bet.type # "column" /\ ~validateBetValue(bet)
    \/ bet.amount <= 0

\* C29: a place-bet request with a malformed bet is rejected with a
\* validation error and leaves the round's pending set and the player's
\* balance unchanged: no handler gets past validation with a malformed bet,
\* no round's pending set holds one, and the balance is the grant less the
\* pending total.
C29_MalformedRejected ==
    /\ \A p \in Procs : req[p].op = "bet" => ~Malformed(req[p].bet)
    /\ \A w \in Accounts :
          HasRound(w) =>
              /\ \A i \in 1..Len(Round(w).bets) : ~Malformed(Round(w).bets[i])
              /\ AllIdle /\ balances[w].present
                    => balances[w].balance = StartingBalance - Round(w).totalBetAmount

(***************************************************************************)
(* The house ledger on its own: direct calls of addFunds and deductFunds   *)
(***************************************************************************)
HouseAddFunds(amount) ==
    /\ Admit({FirstAccount})
    /\ houseStats' = addFunds(houseStats, amount)
    /\ houseTx' = addFundsTx(houseTx, amount)
    /\ ret' = Called("addFunds", FirstAccount, amount, TRUE)
    /\ UNCHANGED <<gameStates, heap, playerStats, balances, pc, req, loc, hist>>

\* deductFunds ends with `return true` on its only path
HouseDeductFunds(amount) ==
    /\ Admit({FirstAccount})
    /\ houseStats' = deductFunds(houseStats, amount)
    /\ houseTx' = deductFundsTx(houseTx, amount)
    /\ ret' = Called("deductFunds", FirstAccount, amount, TRUE)
    /\ UNCHANGED <<gameStates, heap, playerStats, balances, pc, req, loc, hist>>

NextHouse ==
    \/ \E amount \in LedgerAmounts : HouseAddFunds(amount)
    \/ \E amount \in LedgerAmounts : HouseDeductFunds(amount)

SpecHouse == Init /\ [][NextHouse]_vars

\* C30: house ledger updates are unconditional.  Every addFunds call adds
\* its amount to totalCollected and every deductFunds call returns true and
\* adds its amount to totalPaidOut, whatever the house has collected; each
\* counts one transaction and sets profit to totalCollected - totalPaidOut,
\* which may be negative.
C30_HouseUnconditional ==
    [][/\ LedgerCall("addFunds") =>
            /\ houseStats'.totalCollected = houseStats.totalCollected + ret'.amount
            /\ houseStats'.totalPaidOut = houseStats.totalPaidOut
       /\ LedgerCall("deductFunds") =>
            /\ ret'.result = TRUE
            /\ houseStats'.totalPaidOut = houseStats.totalPaidOut + ret'.amount
            /\ houseStats'.totalCollected = houseStats.totalCollected
       /\ (LedgerCall("addFunds") \/ LedgerCall("deductFunds")) =>
            /\ houseStats'.transactionCount = houseStats.transactionCount + 1
            /\ houseStats'.profit
                  = houseStats'.totalCollected - houseStats'.totalPaidOut
            /\ Len(houseTx') = Len(houseTx) + 1
            /\ houseTx'[Len(houseTx')].amount = ret'.amount]_vars

\* C30 witness: a payout larger than everything the house had collected was
\* made and returned true, and the house profit is negative.
C30_Witness ==
    /\ ret.op = "deductFunds" /\ ret.result = TRUE
    /\ houseStats.totalCollected > 0
    /\ houseStats.profit < 0
    /\ houseStats.profit = houseStats.totalCollected - houseStats.totalPaidOut

(***************************************************************************)
(* The leaderboard on its own: getLeaderboard applied to a stats map and a *)
(* limit                                                                   *)
(***************************************************************************)
\* the accounts of a stats map, the totalWinnings they may have (a lost
\* stake of 150, nothing, a win of 100 at 35 to 1) and the limits asked for
BoardWallets == {"A", "B", "C"}
BoardWinnings == {-150, 0, 3500}
BoardLimits == {-1, 0, 1, 2, 10}

\* the entries of a stats map in insertion order (Array.from(map.values()))
StatsMaps ==
    {s \in UNION {[1..n -> [walletAddress : BoardWallets, totalWinnings : BoardWinnings]] :
                     n \in 0..Cardinality(BoardWallets)} :
        \A i, j \in 1..Len(s) : s[i].walletAddress = s[j].walletAddress => i = j}

\* Array.prototype.sort with (a, b) => b.totalWinnings - a.totalWinnings: a
\* stable sort, each entry placed behind the entries that are not smaller
RECURSIVE sortByWinnings(_)
sortByWinnings(s) ==
    IF s = <<>> THEN <<>>
    ELSE LET sorted == sortByWinnings(SubSeq(s, 1, Len(s) - 1))
             e == s[Len(s)]
             k == Cardinality({i \in 1..Len(sorted) :
                                  sorted[i].totalWinnings >= e.totalWinnings})
         IN SubSeq(sorted, 1, k) \o <<e>> \o SubSeq(sorted, k + 1, Len(sorted))

\* Array.prototype.slice(0, end): a negative end counts from the end of the
\* array
slice0(s, end) ==
    LET to == IF end < 0 THEN Max(Len(s) + end, 0) ELSE Min(end, Len(s))
    IN SubSeq(s, 1, to)

getLeaderboard(allStats, limit) == slice0(sortByWinnings(allStats), limit)

InitBoard ==
    /\ gameStates = [a \in Accounts |-> NoObj]
    /\ heap = [o \in ObjIds |-> FreeObj]
    /\ playerStats = [a \in Accounts |-> NoStats]
    /\ balances = [a \in Accounts |-> NoBalance]
    /\ houseStats = [totalCollected |-> 0, totalPaidOut |-> 0, profit |-> 0,
                     transactionCount |-> 0]
    /\ houseTx = <<>>
    /\ pc = [p \in Procs |-> "idle"]
    /\ req = [p \in Procs |-> NoReq]
    /\ loc = [p \in Procs |-> NoLoc]
    /\ ret \in {[op |-> "input", allStats |-> s, limit |-> n, result |-> <<>>] :
                    s \in StatsMaps, n \in BoardLimits}
    /\ nreq = [total |-> 0, other |-> 0]
    /\ escrowed = [a \in Accounts |-> 0]
    /\ refunded = [a \in Accounts |-> 0]
    /\ cleared = [a \in Accounts |-> 0]
    /\ settled = [a \in Accounts |-> 0]
    /\ endSpins = [a \in Accounts |-> 0]
    /\ withdrawn = 0
    /\ clock = [now |-> 0, lastActivity |-> [a \in Accounts |-> 0]]

\* the call getLeaderboard(limit)
ApplyBoard ==
    /\ ret.op = "input"
    /\ ret' = [ret EXCEPT !.op = "getLeaderboard",
                          !.result = getLeaderboard(ret.allStats, ret.limit)]
    /\ UNCHANGED <<gameStates, heap, playerStats, balances, houseStats, houseTx,
                   pc, req, loc, nreq, hist>>

SpecBoard == InitBoard /\ [][ApplyBoard]_vars

\* the place of an account in the stats map
PlaceOf(allStats, w) == CHOOSE i \in 1..Len(allStats) : allStats[i].walletAddress = w

\* C31: getLeaderboard(limit) returns at most limit entries (none for a limit
\* below 1) of the stats map, each once, ordered by totalWinnings descending, entries of equal
\* totalWinnings in their insertion order, and omits no entry whose
\* totalWinnings is greater than that of a returned entry.
C31_Leaderboard ==
    ret.op = "getLeaderboard" =>
        LET r == ret.result
            all == ret.allStats
        IN /\ Len(r) <= Max(ret.limit, 0)
           /\ \A i \in 1..Len(r) : \E j \in 1..Len(all) : all[j] = r[i]
           /\ \A i, j \in 1..Len(r) :
                 i < j => /\ r[i].walletAddress # r[j].walletAddress
                          /\ r[i].totalWinnings >= r[j].totalWinnings
                          /\ r[i].totalWinnings = r[j].totalWinnings
                                => PlaceOf(all, r[i].walletAddress)
                                      < PlaceOf(all, r[j].walletAddress)
           /\ \A j \in 1..Len(all) :
                 (\E i \in 1..Len(r) : all[j].totalWinnings > r[i].totalWinnings)
                     => \E i \in 1..Len(r) : r[i] = all[j]

(***************************************************************************)
(* Persistence: the operations that flush to disk before they return, and  *)
(* the periodic flushes, each with a write that succeeds or fails          *)
(***************************************************************************)
\* a save method without its try/catch: a failed write is thrown on
saveThrowsUncaught(writeFails) == writeFails

\* saveGameStates, savePlayerStats, saveBalances, saveStats and
\* saveTransactions: the whole body is inside try/catch, a failed write is
\* logged and nothing is thrown
saveThrows(writeFails) == FALSE

\* a call that flushed: its result (FALSE: it ended with an exception)
Flushed(op, w, amount, writeFails, result) ==
    [op |-> op, fromWallet |-> w, toWallet |-> "", amount |-> amount,
     writeFails |-> writeFails, result |-> result]

\* getPlayerBalance: getOrCreateBalance sets the account, then saveBalances()
FlushGetPlayerBalance(w, writeFails) ==
    /\ Admit({w})
    /\ balances' = getPlayerBalance(balances, w).bals
    /\ ret' = Flushed("getPlayerBalance", w, 0, writeFails /\ ~balances[w].present,
                      ~(~balances[w].present /\ saveThrows(writeFails)))
    /\ UNCHANGED <<gameStates, heap, playerStats, houseStats, houseTx, pc, req, loc, hist>>

\* addFunds: stats and log are updated, then saveStats(); saveTransactions()
FlushAddFunds(amount, writeFails) ==
    /\ Admit({FirstAccount})
    /\ houseStats' = addFunds(houseStats, amount)
    /\ houseTx' = addFundsTx(houseTx, amount)
    /\ ret' = Flushed("addFunds", FirstAccount, amount, writeFails, ~saveThrows(writeFails))
    /\ UNCHANGED <<gameStates, heap, playerStats, balances, pc, req, loc, hist>>

FlushDeductFunds(amount, writeFails) ==
    /\ Admit({FirstAccount})
    /\ houseStats' = deductFunds(houseStats, amount)
    /\ houseTx' = deductFundsTx(houseTx, amount)
    /\ ret' = Flushed("deductFunds", FirstAccount, amount, writeFails,
                      ~saveThrows(writeFails))
    /\ UNCHANGED <<gameStates, heap, playerStats, balances, pc, req, loc, hist>>

\* the interval timers: saveData() of rounds and stats, saveBalances()
FlushTimer(writeFails) ==
    /\ Admit({FirstAccount})
    /\ ret' = Flushed("saveData", FirstAccount, 0, writeFails, ~saveThrows(writeFails))
    /\ UNCHANGED <<gameStates, heap, playerStats, balances, houseStats, houseTx, pc, req,
                   loc, hist>>

NextFlush ==
    \/ \E w \in Accounts, writeFails \in BOOLEAN : FlushGetPlayerBalance(w, writeFails)
    \/ \E amount \in LedgerAmounts, writeFails \in BOOLEAN : FlushAddFunds(amount, writeFails)
    \/ \E amount \in LedgerAmounts, writeFails \in BOOLEAN :
          FlushDeductFunds(amount, writeFails)
    \/ \E writeFails \in BOOLEAN : FlushTimer(writeFails)

SpecFlush == Init /\ [][NextFlush]_vars

\* C32: a persistence failure does not abort or alter the in-memory
\* operation.  A call whose flush fails completes successfully, and leaves
\* the memory as a successful flush would: the account created with the
\* starting grant, the amount added to totalCollected or totalPaidOut with
\* its log entry, and a failed periodic flush changes nothing.
C32_FlushFailureHarmless ==
    [][(nreq'.total = nreq.total + 1 /\ ret'.writeFails) =>
          /\ ret'.result = TRUE
          /\ UNCHANGED <<gameStates, heap, playerStats>>
          /\ ret'.op = "getPlayerBalance" =>
                /\ balances'[ret'.fromWallet]
                      = [present |-> TRUE, balance |-> StartingBalance,
                         totalEarned |-> StartingBalance, totalSpent |-> 0,
                         transactions |-> <<Tx("deposit", StartingBalance, "Welcome bonus")>>]
                /\ \A a \in Accounts \ {ret'.fromWallet} : balances'[a] = balances[a]
                /\ UNCHANGED <<houseStats, houseTx>>
          /\ ret'.op = "addFunds" =>
                /\ houseStats'.totalCollected = houseStats.totalCollected + ret'.amount
                /\ houseStats'.totalPaidOut = houseStats.totalPaidOut
                /\ houseTx' = Append(houseTx, HouseTx("collection", ret'.amount))
                /\ UNCHANGED balances
          /\ ret'.op = "deductFunds" =>
                /\ houseStats'.totalPaidOut = houseStats.totalPaidOut + ret'.amount
                /\ houseStats'.totalCollected = houseStats.totalCollected
                /\ houseTx' = Append(houseTx, HouseTx("payout", ret'.amount))
                /\ UNCHANGED balances
          /\ ret'.op = "saveData" => UNCHANGED <<balances, houseStats, houseTx>>]_vars

\* C32 witness: the flush of a deductFunds call has just failed, after an
\* account was created and funds were collected.
C32_Witness ==
    /\ ret.op = "deductFunds" /\ ret.writeFails /\ ret.result = TRUE
    /\ balances[FirstAccount].present
    /\ houseStats.totalCollected > 0
    /\ houseStats.totalPaidOut > 0

(***************************************************************************)
(* Progress of the spin handler: one account that bets, spins and starts   *)
(* new rounds, every handler in progress eventually taking its next step   *)
(***************************************************************************)
\* the continuation of handler p after an await
HandlerStep(p) ==
    \/ BetCheckPhase(p) \/ BetPlace(p) \/ BetDeduct(p) \/ BetNewBalance(p) \/ BetRespond(p)
    \/ SpinStart(p) \/ SpinEnd(p) \/ SpinSettle(p) \/ SpinHouse(p) \/ SpinNewBalance(p)
    \/ SpinRespond(p)
    \/ NewRoundGetState(p) \/ NewRoundBalance(p) \/ NewRoundRespond(p)

NextLive ==
    \/ \E p \in Procs, bet \in {b \in SeqBetChoices : b.type = "number"} :
          BetGetState(p, FirstAccount, bet)
    \/ \E p \in Procs : SpinGetState(p, FirstAccount)
    \/ \E p \in Procs : NewRoundStart(p, FirstAccount)
    \/ \E p \in Procs : HandlerStep(p)

\* the event loop runs every continuation that is ready
SpecLive ==
    InitPlaying /\ [][NextLive]_vars /\ \A p \in Procs : WF_vars(HandlerStep(p))

\* C33: every spin that is accepted eventually settles: whenever the round
\* of an account is in phase spinning, a settlement of that account (payout
\* credited and house entry recorded) is completed later, whatever other
\* requests for the account interleave with the spin handler.
C33_SpinSettles ==
    \A w \in Accounts, n \in 0..MaxRequests :
        (HasRound(w) /\ Round(w).phase = "spinning" /\ settled[w] = n)
            ~> (settled[w] > n)

\* C34: a withdraw request reports success only if the player's balance was
\* actually decreased by the withdrawn amount: a withdraw handler that is
\* about to send its success response has had its deductBalance call
\* succeed.
C34_WithdrawBacked ==
    \A p \in Procs : (req[p].op = "withdraw" /\ pc[p] = "wd_resp") => loc[p].ok

\* C35: the house counters and log are monotone and well-formed: no step
\* decreases totalCollected or totalPaidOut, and every entry appended to the
\* house transaction log has amount > 0, also when some bets win and the
\* payout is less than or equal to the total stake.
C35_HouseMonotone ==
    [][/\ houseStats'.totalCollected >= houseStats.totalCollected
       /\ houseStats'.totalPaidOut >= houseStats.totalPaidOut
       /\ houseTx' # houseTx => houseTx'[Len(houseTx')].amount > 0]_vars

(***************************************************************************)
(* The client library's payout rule, RouletteLogic.isBetWinning, next to   *)
(* the server's isBetWinning                                               *)
(***************************************************************************)
\* RouletteLogic.getColumn: 0 for null
getColumn(number) ==
    IF number = 0 THEN 0
    ELSE IF number % 3 = 1 THEN 1
    ELSE IF number % 3 = 2 THEN 2
    ELSE 3

\* RouletteLogic.isBetWinning of the client library
RouletteLogicIsBetWinning(bet, winningNumber) ==
    CASE bet.type = "number" -> bet.value = NumV(winningNumber)
      [] bet.type = "color" ->
            IF winningNumber = 0 THEN FALSE
            ELSE bet.value = StrV(IF winningNumber \in redNumbers THEN "red" ELSE "black")
      [] bet.type = "odds_evens" ->
            IF winningNumber = 0 THEN FALSE
            ELSE IF bet.value = StrV("odd") THEN winningNumber % 2 = 1
            ELSE IF bet.value = StrV("even") THEN winningNumber % 2 = 0
            ELSE FALSE
      [] bet.type = "dozen" ->
            winningNumber # 0 /\ bet.value = NumV(Ceil12(winningNumber))
      [] bet.type = "column" ->
            winningNumber # 0 /\ bet.value = NumV(getColumn(winningNumber))
      [] bet.type = "high_low" ->
            IF winningNumber = 0 THEN FALSE
            ELSE IF bet.value = StrV("low") THEN winningNumber >= 1 /\ winningNumber <= 18
            ELSE IF bet.value = StrV("high") THEN winningNumber >= 19 /\ winningNumber <= 36
            ELSE FALSE
      [] OTHER -> FALSE

\* a bet of a type the schema accepts whose value fits the type
ValidRuleBet(bet) ==
    \/ validateBetValue(bet)
    \/ bet.type = "column" /\ bet.value.k = "num" /\ bet.value.n \in {1, 2, 3}

\* C36: for every bet of an accepted type with a valid value and every slot
\* 0..36, the server's isBetWinning gives the result of the client's
\* RouletteLogic.isBetWinning
C36_ServerAgreesWithClient ==
    (ret.op = "isBetWinning" /\ ValidRuleBet(ret.bet))
        => ret.result = RouletteLogicIsBetWinning(ret.bet, ret.winningNumber)

\* the agreement of C36 on the four bet types the server decides
C36_AgreesOnDecidedTypes ==
    (ret.op = "isBetWinning" /\ ValidRuleBet(ret.bet)
        /\ ret.bet.type \in {"number", "color", "odds_evens", "dozen"})
        => ret.result = RouletteLogicIsBetWinning(ret.bet, ret.winningNumber)

(***************************************************************************)
(* The body of a successful POST /bet response                             *)
(***************************************************************************)
\* the data of the response the bet handler p sends at its last step:
\* newBalance as read back, totalBets from the handler's gameState reference
betResponse(p) ==
    [newBalance |-> loc[p].newBalance,
     totalBets |-> Len(heap[loc[p].gs].bets) + 1]

\* C37: a successful place-bet response reports the balance after the escrow
\* debit and a bet count equal to the number of entries of the round's
\* pending set after the bet was placed
C37_BetResponse ==
    \A p \in Procs :
        (req[p].op = "bet" /\ pc[p] = "bet_resp")
            => /\ betResponse(p).newBalance = balances[W(p)].balance
               /\ betResponse(p).totalBets = Len(Round(W(p)).bets)

\* the newBalance half of C37: for a client that sends one request at a time
\* the reported balance is the balance after the debit
C37_NewBalanceReported ==
    \A p \in Procs :
        (req[p].op = "bet" /\ pc[p] = "bet_resp")
            => betResponse(p).newBalance = balances[W(p)].balance

(***************************************************************************)
(* Two accounts side by side: both have called /initialize, and requests   *)
(* for either arrive and interleave                                        *)
(***************************************************************************)
InitPair ==
    /\ gameStates = [a \in Accounts |-> IF a = FirstAccount THEN 1 ELSE 2]
    /\ heap = [o \in ObjIds |-> IF o \in {1, 2} THEN NewGame ELSE FreeObj]
    /\ playerStats = [a \in Accounts |-> NoStats]
    /\ balances = [a \in Accounts |->
                      getOrCreateBalance([b \in Accounts |-> NoBalance], a)[a]]
    /\ houseStats = [totalCollected |-> 0, totalPaidOut |-> 0, profit |-> 0,
                     transactionCount |-> 0]
    /\ houseTx = <<>>
    /\ pc = [p \in Procs |-> "idle"]
    /\ req = [p \in Procs |-> NoReq]
    /\ loc = [p \in Procs |-> NoLoc]
    /\ ret = NoRet
    /\ nreq = [total |-> 0, other |-> 0]
    /\ escrowed = [a \in Accounts |-> 0]
    /\ refunded = [a \in Accounts |-> 0]
    /\ cleared = [a \in Accounts |-> 0]
    /\ settled = [a \in Accounts |-> 0]
    /\ endSpins = [a \in Accounts |-> 0]
    /\ withdrawn = 0
    /\ clock = [now |-> 0, lastActivity |-> [a \in Accounts |-> 0]]

\* how many requests the two accounts send between them
PairRequests == 3

\* Next with the arrivals capped at PairRequests
NextPair ==
    \/ \E p \in Procs, w \in Accounts :
          nreq.total < PairRequests /\ InitializeGame(p, w)
    \/ \E p \in Procs : InitializeBalance(p)
    \/ \E p \in Procs : InitializeRespond(p)
    \/ \E p \in Procs, w \in Accounts, bet \in BetChoices :
          nreq.total < PairRequests /\ BetGetState(p, w, bet)
    \/ \E p \in Procs : BetCheckPhase(p)
    \/ \E p \in Procs : BetPlace(p)
    \/ \E p \in Procs : BetDeduct(p)
    \/ \E p \in Procs : BetNewBalance(p)
    \/ \E p \in Procs : BetRespond(p)
    \/ \E p \in Procs, w \in Accounts :
          nreq.total < PairRequests /\ ClearGetState(p, w)
    \/ \E p \in Procs : ClearRefund(p)
    \/ \E p \in Procs : ClearClear(p)
    \/ \E p \in Procs : ClearNewBalance(p)
    \/ \E p \in Procs : ClearRespond(p)
    \/ \E p \in Procs, w \in Accounts :
          nreq.total < PairRequests /\ SpinGetState(p, w)
    \/ \E p \in Procs : SpinStart(p)
    \/ \E p \in Procs : SpinEnd(p)
    \/ \E p \in Procs : SpinSettle(p)
    \/ \E p \in Procs : SpinHouse(p)
    \/ \E p \in Procs : SpinNewBalance(p)
    \/ \E p \in Procs : SpinRespond(p)
    \/ \E p \in Procs, w \in Accounts :
          nreq.total < PairRequests /\ NewRoundStart(p, w)
    \/ \E p \in Procs : NewRoundGetState(p)
    \/ \E p \in Procs : NewRoundBalance(p)
    \/ \E p \in Procs : NewRoundRespond(p)
    \/ \E p \in Procs, w \in Accounts, amount \in AmountChoices :
          nreq.total < PairRequests /\ WithdrawGetBalance(p, w, amount)
    \/ \E p \in Procs : WithdrawDeduct(p)
    \/ \E p \in Procs : WithdrawNewBalance(p)
    \/ \E p \in Procs : WithdrawRespond(p)

SpecPair == InitPair /\ [][NextPair]_vars

\* what the server holds for account w: its round, its balance record with
\* the totals and the transaction log, and its PlayerStats
AccountState(w) ==
    <<IF HasRound(w) THEN Round(w) ELSE FreeObj, clock.lastActivity[w],
      balances[w], playerStats[w]>>

\* the step is one of a request for account w: its arrival or a later part
\* of its handler
StepFor(w) ==
    \E p \in Procs :
        /\ pc'[p] # pc[p]
        /\ w = (IF pc[p] = "idle" THEN req'[p].walletAddress ELSE req[p].walletAddress)

\* C38: a step of initialize, placeBet, clearBets, spin, newRound or withdraw
\* for one account leaves the round, balance, totals, transaction log and
\* PlayerStats of every other account unchanged, under any interleaving
C38_AccountsIsolated ==
    [][\A b \in Accounts : AccountState(b)' # AccountState(b) => StepFor(b)]_vars

\* account B has a bet in escrow while a round of account A has been settled
C38_Witness ==
    \E a, b \in Accounts :
        /\ a # b
        /\ escrowed[b] > 0
        /\ settled[a] > 0
        /\ playerStats[a].present

====
